---- MODULE Spec2Model ----
(***************************************************************************)
(* maram: the traversal engine (src/src/walker.rs), the filter predicate   *)
(* and comparator (src/src/filters.rs) and the line counter / directory    *)
(* size helper (src/src/stats.rs).                                         *)
(*                                                                         *)
(* A directory tree is a fixed skeleton of nodes whose kinds, names, sizes *)
(* and modification times are drawn in Init.  A path is the sequence of    *)
(* nodes named from the root on (Path::join), so a path that goes through  *)
(* a symbolic link differs from the path of the link's target.             *)
(* A name is the string  ["."] stem id ; the one regular expression of the *)
(* model is the literal  main , which matches a path exactly when one of   *)
(* its components has the stem "main".                                     *)
(* Option<T> is a set with at most one element: {} is None, {v} Some(v).   *)
(***************************************************************************)
EXTENDS Integers, Sequences, FiniteSets, TLC

VARIABLES fs,        \* the directory tree on disk (never modified)
          opts,      \* FilterOptions handed to Walker::new / StreamWalker::new
          walker,    \* the Walker: <<>> before Walker::new, else <<record>>
          now,       \* SystemTime::now(), in ticks
          result,    \* what the last operation returned or wrote
          prev,      \* what the operation before it returned or wrote
          file,      \* count_lines: the file read, as runs of equal bytes
          max_size,  \* count_lines: the size ceiling
          lines,     \* count_lines: <<>> before the call, else <<Ok(n)>>
          args,      \* run_tree: the command line (Args)
          config,    \* run_tree: the Config loaded from .maram.toml
          ignore_loads, \* load_gitignore: GitignoreBuilder::build succeeds
          \* A stream or a Standard walk followed call by call:
          running,          \* the operation under way, "none" before it is started
          returned,         \* "no" while it runs, then "ok" or "err"
          calls,            \* the call stack: a frame for each call that has not returned
          prefix_stack,     \* walk_and_print_tree: prefix (Vec<bool>)
          stdout,           \* the lines written to the sink so far
          counts,           \* StreamWalker: dir_count and file_count
          entries_created,  \* walk_standard: the paths of the entries created so far
          built,            \* walk_standard: the vector it returned
          \* The size aggregation pass followed worker by worker:
          sizing,           \* "none", "running", "ok" or "err"
          todo,             \* per top-level entry: the directory entries still without size
          pending,          \* per top-level entry: the directories handed to the workers
          total,            \* per top-level entry: size, the shared counter, if there is one
          size_fields,      \* the size fields written so far: path, size and writer
          worked            \* the directories the workers have read, in the order of the reads

stepVars == <<running, returned, calls, prefix_stack, stdout, counts,
              entries_created, built>>
sizeVars == <<sizing, todo, pending, total, size_fields, worked>>

vars == <<fs, opts, walker, now, result, prev, file, max_size, lines,
          args, config, ignore_loads, stepVars, sizeVars>>

\* No operation is followed call by call, no size pass worker by worker.
StepIdle ==
  /\ running = "none"
  /\ returned = "no"
  /\ calls = <<>>
  /\ prefix_stack = <<>>
  /\ stdout = <<>>
  /\ counts = [dir_count |-> 0, file_count |-> 0]
  /\ entries_created = <<>>
  /\ built = <<>>

SizeIdle ==
  /\ sizing = "none"
  /\ todo = <<>>
  /\ pending = <<>>
  /\ total = <<>>
  /\ size_fields = <<>>
  /\ worked = <<>>

walkVars == <<fs, opts, walker, now, result, prev>>
lineVars == <<file, max_size, lines>>
runVars == <<args, config, ignore_loads>>

----------------------------------------------------------------------------
(* Bounds of the model *)

MaxDepthOpt == 2     \* the largest max_depth tried
MaxCap == 1          \* the largest max_dirs / max_files tried
MaxTicks == 1        \* how far the clock advances
MaxRuns == 3         \* count_lines: runs of equal bytes in a file
MaxSymlinks == 2     \* the links the system follows in one path (40 on Linux)

----------------------------------------------------------------------------
(* The directory tree *)

Nodes == 1..6
Root == Nodes \ (2..6)

\* Parent[n]: the directory node n lives in (0: the root has none).
Parent == <<0, 1, 1, 1, 2, 5>>

None == {}
Some(v) == {v}

\* What a regular file holds (the byte runs are defined with the line counter).
Bytes1 == <<[b |-> "txt", n |-> 1]>>
Bytes10 == <<[b |-> "txt", n |-> 4], [b |-> "nl", n |-> 1], [b |-> "txt", n |-> 4], [b |-> "nl", n |-> 1]>>
Bytes1000 == <<[b |-> "nul", n |-> 1], [b |-> "nl", n |-> 511], [b |-> "txt", n |-> 488]>>

RECURSIVE BytesLen(_)
BytesLen(f) == IF f = <<>> THEN 0 ELSE Head(f).n + BytesLen(Tail(f))

\* size: st_size (for a directory and a link whatever the filesystem reports);
\* mtime: modification time in ticks; ign: an ignore rule of the root matches it;
\* (NoMtime: the platform reports none, metadata.modified() is an error);
\* perm: "ok", or what the process may not do with the object:
\*   "noread"   a directory that cannot be opened or listed, a file that
\*              cannot be opened;
\*   "nosearch" a directory that can be listed while the metadata of the
\*              entries inside cannot be read.
NoMtime == -1

Absent == [kind |-> "absent", dot |-> FALSE, stem |-> "lib", size |-> 0, mtime |-> 0, target |-> 0, bytes |-> <<>>, ign |-> FALSE, perm |-> "ok"]
Dir(dot, stem) == [kind |-> "dir", dot |-> dot, stem |-> stem, size |-> 10, mtime |-> 0, target |-> 0, bytes |-> <<>>, ign |-> FALSE, perm |-> "ok"]
File(dot, stem, bytes, mtime) == [kind |-> "file", dot |-> dot, stem |-> stem, size |-> BytesLen(bytes), mtime |-> mtime, target |-> 0, bytes |-> bytes, ign |-> FALSE, perm |-> "ok"]
Symlink(dot, target) == [kind |-> "symlink", dot |-> dot, stem |-> "lib", size |-> 1, mtime |-> 1, target |-> target, bytes |-> <<>>, ign |-> FALSE, perm |-> "ok"]

\* The profiles each node of the skeleton may take.
Profiles(n) ==
  CASE n = 1 -> {Dir(FALSE, "lib"), Dir(TRUE, "lib"), File(FALSE, "lib", Bytes10, 1), File(TRUE, "lib", Bytes10, 1)}
    [] n = 2 -> {Dir(FALSE, "lib"), Dir(TRUE, "lib"), File(FALSE, "main", Bytes1, 0)}
    [] n = 3 -> {File(FALSE, "main", Bytes1, 1), File(FALSE, "lib", Bytes1000, 0), File(TRUE, "lib", Bytes10, 1),
                 Symlink(FALSE, 2)}
    [] n = 4 -> {File(FALSE, "lib", Bytes10, 1), Symlink(FALSE, 2), Dir(FALSE, "lib")}
    [] n = 5 -> {Dir(FALSE, "lib"), File(FALSE, "main", Bytes1000, 1)}
    [] n = 6 -> {File(FALSE, "lib", Bytes1000, 0), File(TRUE, "main", Bytes1, 1)}

\* A tree: the root and every node inside a directory take one of their
\* profiles, and nothing exists inside what is no directory.
Trees ==
  {t \in [Nodes -> UNION {Profiles(n) : n \in Nodes} \cup {Absent}] :
     \A n \in Nodes :
       IF n \in Root \/ t[Parent[n]].kind = "dir"
       THEN t[n] \in Profiles(n)
       ELSE t[n] = Absent}

----------------------------------------------------------------------------
(* Filesystem primitives as std::fs exposes them *)

Last(s) == s[Len(s)]

\* fs::symlink_metadata(path) and DirEntry::metadata(): neither follows a link.
Metadata(path) == fs[Last(path)]
MetaIsDir(path) == Metadata(path).kind = "dir"
MetaIsFile(path) == Metadata(path).kind = "file"
MetaIsSymlink(path) == Metadata(path).kind = "symlink"
MetaLen(path) == Metadata(path).size

\* The node a path resolves to, a final symbolic link followed.
Resolve(path) ==
  IF Metadata(path).kind = "symlink" THEN Metadata(path).target ELSE Last(path)

\* Result<T>: Ok(v) or an error; which error it is, is not modelled.
Ok(v) == [ok |-> TRUE, val |-> v]
Err == [ok |-> FALSE, val |-> <<>>]

\* fs::symlink_metadata(path) and DirEntry::metadata() succeed: the directory
\* the object lives in can be searched.
MetadataOk(path) == Last(path) \in Root \/ fs[Parent[Last(path)]].perm # "nosearch"

\* fs::read_dir(path) and opendir(3) succeed.
ReadDirOk(path) == fs[Resolve(path)].perm # "noread"

\* The symbolic links the system follows to resolve the path to its end.
LinkHops(path) == Cardinality({i \in 1..Len(path) : fs[path[i]].kind = "symlink"})

\* Path::is_dir() on a system that follows any number of links.
PathIsDirAnyHops(path) == MetadataOk(path) /\ fs[Resolve(path)].kind = "dir"

\* Path::is_dir(): fs::metadata(path), which follows symbolic links, and
\* false when it fails: the metadata cannot be read, or the system refuses
\* to follow more than MaxSymlinks links in one path (ELOOP).
PathIsDir(path) ==
  /\ MetadataOk(path)
  /\ LinkHops(path) <= MaxSymlinks
  /\ fs[Resolve(path)].kind = "dir"

\* fs::read_dir(path) / readdir(3): the entries of the directory in the
\* filesystem's enumeration order (here: by node number), "." and ".." left out.
RECURSIVE EnumFrom(_, _)
EnumFrom(d, n) ==
  IF n \notin Nodes THEN <<>>
  ELSE (IF Parent[n] = d /\ fs[n].kind # "absent" THEN <<n>> ELSE <<>>) \o EnumFrom(d, n + 1)

ReadDir(path) ==
  LET names == EnumFrom(Resolve(path), 1)
  IN  [i \in 1..Len(names) |-> Append(path, names[i])]

\* path.file_name(): the last component.
FileName(path) == [dot |-> Metadata(path).dot, stem |-> Metadata(path).stem, id |-> Last(path)]

\* Regex::is_match on the path string, for the literal pattern "main".
IsMatch(path) == \E i \in 1..Len(path) : fs[path[i]].stem = "main"

----------------------------------------------------------------------------
(* File contents and the line counter (src/src/stats.rs) *)

\* A file's bytes, as a sequence of runs of n equal bytes.  Byte classes:
\*   "nl"  the newline byte            "nul" the null byte
\*   "txt" a byte the detector counts as text (\r, \t, 32..126, 128..255)
\*   "ctl" any other byte (a control character)
Run(b, n) == [b |-> b, n |-> n]
ByteClasses == {"nl", "nul", "txt", "ctl"}
RunLens == {1, 511, 4095}

\* metadata.len() of a regular file: the number of its bytes.
FileLen(f) == BytesLen(f)

Min(a, b) == IF a <= b THEN a ELSE b
Max(a, b) == IF a >= b THEN a ELSE b

\* buffer[..].iter().filter(..).count() over the bytes at offsets from..to-1.
RECURSIVE CountIn(_, _, _, _)
CountIn(f, classes, from, to) ==
  IF f = <<>> \/ to <= 0 THEN 0
  ELSE LET n == Head(f).n
           overlap == Max(0, Min(n, to) - Max(0, from))
       IN  (IF Head(f).b \in classes THEN overlap ELSE 0)
             + CountIn(Tail(f), classes, from - n, to - n)

\* The byte at offset pos (0-based), pos < FileLen(f).
RECURSIVE ByteAt(_, _)
ByteAt(f, pos) == IF pos < Head(f).n THEN Head(f).b ELSE ByteAt(Tail(f), pos - Head(f).n)

ProbeSize == 512     \* let mut buffer = [0u8; 512]
ChunkSize == 4096    \* let mut buffer = [0u8; 4096]

\* is_binary_file with the null-byte test left out.
is_binary_file_ratio_only(f) ==
  LET bytes_read == Min(ProbeSize, FileLen(f))
      text_chars == CountIn(f, {"nl", "txt"}, 0, bytes_read)
  IN  IF bytes_read = 0 THEN FALSE
      ELSE text_chars < (bytes_read * 95) \div 100

\* is_binary_file: one read of up to 512 bytes from the start of the file.
is_binary_file(f) ==
  LET bytes_read == Min(ProbeSize, FileLen(f))
      null_count == CountIn(f, {"nul"}, 0, bytes_read)
      text_chars == CountIn(f, {"nl", "txt"}, 0, bytes_read)
  IN  IF bytes_read = 0 THEN FALSE
      ELSE IF null_count > 0 THEN TRUE
      ELSE text_chars < (bytes_read * 95) \div 100

\* The read loop of count_lines with the final "+ 1" left out.
RECURSIVE read_loop_no_tail(_, _, _, _, _)
read_loop_no_tail(f, pos, count, last_byte, has_content) ==
  LET n == Min(ChunkSize, FileLen(f) - pos)
  IN  IF n = 0 THEN count
      ELSE read_loop_no_tail(f, pos + n, count + CountIn(f, {"nl"}, pos, pos + n),
                             ByteAt(f, pos + n - 1), TRUE)

\* The read loop of count_lines: reader.read fills the 4096-byte buffer from
\* offset pos on; 0 bytes read ends the loop.
RECURSIVE read_loop(_, _, _, _, _)
read_loop(f, pos, count, last_byte, has_content) ==
  LET n == Min(ChunkSize, FileLen(f) - pos)
  IN  IF n = 0
      THEN (IF has_content /\ last_byte # "nl" THEN count + 1 ELSE count)
      ELSE read_loop(f, pos + n, count + CountIn(f, {"nl"}, pos, pos + n),
                     ByteAt(f, pos + n - 1), TRUE)

\* count_lines(path, max_size) on a readable file with bytes f.
count_lines(f, max) ==
  IF FileLen(f) > max THEN 0
  ELSE IF is_binary_file(f) THEN 0
  ELSE read_loop(f, 0, 0, "nul", FALSE)

----------------------------------------------------------------------------
(* FilterOptions and the filter predicate (src/src/filters.rs) *)

\* impl Default for FilterOptions.  A pattern is the literal regex "main".
DefaultOptions ==
  [include |-> None, exclude |-> None, only_dirs |-> FALSE, only_files |-> FALSE,
   min_size |-> None, max_size |-> None, newer_than |-> None, older_than |-> None,
   gitignore |-> FALSE, show_hidden |-> FALSE, search |-> None, max_depth |-> None,
   max_dirs |-> None, max_files |-> None, sort_by |-> None, reverse_sort |-> FALSE]

\* FilterOptions::matches_search
matches_search(o, path) == IF o.search # None THEN IsMatch(path) ELSE TRUE

\* The time filters of FilterOptions::should_include, the clock reading t:
\* the age of an entry is t - modified; metadata.modified() fails when there
\* is no modification time and duration_since fails for a time in the
\* future, and the age checks are then skipped.
time_filters(o, modified, t) ==
  modified # NoMtime /\ modified <= t =>
    LET age == t - modified
    IN  /\ \A newer_than \in o.newer_than : ~(age > newer_than)
        /\ \A older_than \in o.older_than : ~(age < older_than)

\* FilterOptions::should_include with the hidden-file check left out.
should_include_no_hidden(o, path) ==
  LET is_dir == MetaIsDir(path)
      size == MetaLen(path)
      modified == Metadata(path).mtime
  IN  /\ ~(o.only_dirs /\ ~is_dir)
      /\ ~(o.only_files /\ is_dir)
      /\ ~(~is_dir /\ o.search # None /\ ~matches_search(o, path))
      /\ (o.include # None => IsMatch(path))
      /\ (o.exclude # None => ~IsMatch(path))
      /\ (~is_dir => /\ \A min \in o.min_size : ~(size < min)
                     /\ \A max \in o.max_size : ~(size > max))
      /\ time_filters(o, modified, now)

\* FilterOptions::should_include with files-only testing for a regular file
\* where the code tests for a directory.
should_include_only_regular(o, path) ==
  LET is_dir == MetaIsDir(path)
      size == MetaLen(path)
      modified == Metadata(path).mtime
  IN  /\ ~(o.only_dirs /\ ~is_dir)
      /\ ~(o.only_files /\ MetaIsFile(path))
      /\ ~(~o.show_hidden /\ FileName(path).dot)
      /\ ~(~is_dir /\ o.search # None /\ ~matches_search(o, path))
      /\ (o.include # None => IsMatch(path))
      /\ (o.exclude # None => ~IsMatch(path))
      /\ (~is_dir => /\ \A min \in o.min_size : ~(size < min)
                     /\ \A max \in o.max_size : ~(size > max))
      /\ time_filters(o, modified, now)

\* FilterOptions::should_include with the size bounds exclusive: a size equal
\* to the minimum or the maximum is excluded.
should_include_exclusive_bounds(o, path) ==
  LET is_dir == MetaIsDir(path)
      size == MetaLen(path)
      modified == Metadata(path).mtime
  IN  /\ ~(o.only_dirs /\ ~is_dir)
      /\ ~(o.only_files /\ is_dir)
      /\ ~(~o.show_hidden /\ FileName(path).dot)
      /\ ~(~is_dir /\ o.search # None /\ ~matches_search(o, path))
      /\ (o.include # None => IsMatch(path))
      /\ (o.exclude # None => ~IsMatch(path))
      /\ (~is_dir => /\ \A min \in o.min_size : ~(size <= min)
                     /\ \A max \in o.max_size : ~(size >= max))
      /\ time_filters(o, modified, now)

\* FilterOptions::should_include(path, metadata): every check returns false
\* when it fails, so the result is the conjunction of the checks.  The time
\* filters read SystemTime::now().
filter_should_include(o, path) ==
  LET is_dir == MetaIsDir(path)
      size == MetaLen(path)
      modified == Metadata(path).mtime
  IN  /\ ~(o.only_dirs /\ ~is_dir)
      /\ ~(o.only_files /\ is_dir)
      /\ ~(~o.show_hidden /\ FileName(path).dot)
      /\ ~(~is_dir /\ o.search # None /\ ~matches_search(o, path))
      /\ (o.include # None => IsMatch(path))
      /\ (o.exclude # None => ~IsMatch(path))
      /\ (~is_dir => /\ \A min \in o.min_size : ~(size < min)
                     /\ \A max \in o.max_size : ~(size > max))
      /\ time_filters(o, modified, now)

\* The order of two names as strings: "." sorts before every letter, then the
\* stem, then the id.
NameKey(name) == <<IF name.dot THEN 0 ELSE 1, IF name.stem = "lib" THEN 0 ELSE 1, name.id>>

Cmp(a, b) == IF a < b THEN "Less" ELSE IF a > b THEN "Greater" ELSE "Equal"

CmpName(a, b) ==
  LET ka == NameKey(a)
      kb == NameKey(b)
  IN  IF ka[1] # kb[1] THEN Cmp(ka[1], kb[1])
      ELSE IF ka[2] # kb[2] THEN Cmp(ka[2], kb[2])
      ELSE Cmp(ka[3], kb[3])

Reverse(ordering) ==
  CASE ordering = "Less" -> "Greater"
    [] ordering = "Greater" -> "Less"
    [] OTHER -> "Equal"

\* compare_entries with the reverse flag ignored.
compare_entries_no_reverse(a, b, sort_by, reverse) ==
  CASE sort_by = "Name" -> CmpName(a.name, b.name)
    [] sort_by = "Size" -> Cmp(a.size, b.size)
    [] sort_by = "Time" -> Cmp(a.modified, b.modified)
    [] sort_by = "Ext" -> CmpName(a.name, b.name)
    [] sort_by = "Lines" -> Cmp(a.line_count, b.line_count)

\* compare_entries(a, b, sort_by, reverse).  No name of the model has an
\* extension, so Ext compares the (empty) extensions equal and then the names.
compare_entries(a, b, sort_by, reverse) ==
  LET ordering ==
        CASE sort_by = "Name" -> CmpName(a.name, b.name)
          [] sort_by = "Size" -> Cmp(a.size, b.size)
          [] sort_by = "Time" -> Cmp(a.modified, b.modified)
          [] sort_by = "Ext" -> CmpName(a.name, b.name)
          [] sort_by = "Lines" -> Cmp(a.line_count, b.line_count)
  IN  IF reverse THEN Reverse(ordering) ELSE ordering

----------------------------------------------------------------------------
(* The Walker (src/src/walker.rs) *)

DefaultMaxFileSize == 1073741824    \* max_file_size: 1_073_741_824

\* num_cpus::get(): the processors of the machine.
NumCpus == 2

\* Walker::determine_mode without the test of max_dirs and max_files.
determine_mode_no_caps(filter_opts, gitignore) ==
  IF \/ filter_opts.search # None
     \/ filter_opts.min_size # None
     \/ filter_opts.max_size # None
     \/ filter_opts.newer_than # None
     \/ filter_opts.older_than # None
     \/ gitignore # None
  THEN "Full"
  ELSE IF \/ filter_opts.include # None
          \/ filter_opts.exclude # None
          \/ filter_opts.only_dirs
          \/ filter_opts.only_files
          \/ filter_opts.sort_by # None
  THEN "Standard"
  ELSE "FastPath"

\* Walker::determine_mode(filter_opts, gitignore)
determine_mode(filter_opts, gitignore) ==
  IF \/ filter_opts.search # None
     \/ filter_opts.min_size # None
     \/ filter_opts.max_size # None
     \/ filter_opts.newer_than # None
     \/ filter_opts.older_than # None
     \/ gitignore # None
  THEN "Full"
  ELSE IF \/ filter_opts.include # None
          \/ filter_opts.exclude # None
          \/ filter_opts.only_dirs
          \/ filter_opts.only_files
          \/ filter_opts.sort_by # None
          \/ filter_opts.max_dirs # None
          \/ filter_opts.max_files # None
  THEN "Standard"
  ELSE "FastPath"

\* load_gitignore(root): the matcher built from the root's ignore file, None
\* (with a warning) when GitignoreBuilder::build fails.
load_gitignore(root) == IF ignore_loads THEN Some("matcher") ELSE None

\* Walker::new(root, filter_opts, thread_count); the root is the canonical
\* path of the tree's root.
WalkerNew(filter_opts, thread_count) ==
  LET gitignore == IF filter_opts.gitignore THEN load_gitignore(<<1>>) ELSE None
  IN  [root |-> <<1>>, filter_opts |-> filter_opts, gitignore |-> gitignore,
       thread_count |-> IF thread_count = 0 THEN NumCpus ELSE thread_count,
       max_file_size |-> DefaultMaxFileSize,
       show_lines |-> FALSE, dir_sizes |-> FALSE,
       mode |-> determine_mode(filter_opts, gitignore)]

\* Walker::set_max_file_size(size): the field alone.
set_max_file_size(w, size) == [w EXCEPT !.max_file_size = size]

\* enable_line_counting with the mode set to Standard whatever it was.
enable_line_counting_standard(w) ==
  [w EXCEPT !.show_lines = TRUE, !.mode = "Standard"]

\* Walker::enable_line_counting(): FastPath becomes Standard.
enable_line_counting(w) ==
  [w EXCEPT !.show_lines = TRUE,
            !.mode = IF @ = "FastPath" THEN "Standard" ELSE @]

\* Walker::enable_dir_sizes(): always Full.
enable_dir_sizes(w) == [w EXCEPT !.dir_sizes = TRUE, !.mode = "Full"]

\* Walker::should_include with the ignore rules left out.
should_include_no_ignore(w, path) == filter_should_include(w.filter_opts, path)

\* Walker::should_include(path, metadata): the ignore rules, then the filters.
should_include(w, path) ==
  IF w.gitignore # None /\ Metadata(path).ign THEN FALSE
  ELSE filter_should_include(w.filter_opts, path)

\* metadata.modified().unwrap_or(SystemTime::UNIX_EPOCH)
Modified(path) == IF Metadata(path).mtime = NoMtime THEN 0 ELSE Metadata(path).mtime

\* Walker::create_entry storing the age of the path for its modification time.
create_entry_age(w, path, depth) ==
  LET size == IF MetaIsDir(path) THEN 0 ELSE MetaLen(path)
      line_count == IF w.show_lines /\ MetaIsFile(path) /\ size <= w.max_file_size
                    THEN count_lines(Metadata(path).bytes, w.max_file_size)
                    ELSE 0
  IN  [name |-> FileName(path), path |-> path, size |-> size, line_count |-> line_count,
       modified |-> now - Metadata(path).mtime, is_dir |-> MetaIsDir(path),
       is_symlink |-> MetaIsSymlink(path), children |-> <<>>, depth |-> depth]

\* Walker::create_entry(path, metadata, depth), the metadata being
\* symlink_metadata(path).  Permission bits are not modelled (is_executable).
create_entry(w, path, depth) ==
  LET size == IF MetaIsDir(path) THEN 0 ELSE MetaLen(path)
      line_count == IF w.show_lines /\ MetaIsFile(path) /\ size <= w.max_file_size
                    THEN count_lines(Metadata(path).bytes, w.max_file_size)
                    ELSE 0
  IN  [name |-> FileName(path), path |-> path, size |-> size, line_count |-> line_count,
       modified |-> Modified(path), is_dir |-> MetaIsDir(path),
       is_symlink |-> MetaIsSymlink(path), children |-> <<>>, depth |-> depth]

\* Walker::create_entry_from_path: fs::symlink_metadata(path)?, then create_entry.
create_entry_from_path(w, path, depth) ==
  IF ~MetadataOk(path) THEN Err ELSE Ok(create_entry(w, path, depth))

\* Walker::process_entry: Ok(None) when the filters exclude the path.
process_entry(w, path, depth) ==
  IF ~MetadataOk(path) THEN Err
  ELSE IF ~should_include(w, path) THEN Ok(None)
  ELSE Ok(Some(create_entry(w, path, depth)))

\* The temporary entry read_directory sorts by: size is metadata.len() for
\* directories too, line_count is 0.
SortEntry(path, depth) ==
  [name |-> FileName(path), path |-> path, size |-> MetaLen(path), line_count |-> 0,
   modified |-> Modified(path), is_dir |-> MetaIsDir(path),
   is_symlink |-> MetaIsSymlink(path), children |-> <<>>, depth |-> depth]

\* slice::sort_by is a stable sort: e goes behind every element it does not
\* compare Less to.
RECURSIVE InsertSorted(_, _, _, _)
InsertSorted(e, sorted, sort_by, reverse) ==
  IF sorted = <<>> THEN <<e>>
  ELSE IF compare_entries(e, Head(sorted), sort_by, reverse) = "Less" THEN <<e>> \o sorted
  ELSE <<Head(sorted)>> \o InsertSorted(e, Tail(sorted), sort_by, reverse)

RECURSIVE SortBy(_, _, _)
SortBy(entries, sort_by, reverse) ==
  IF entries = <<>> THEN <<>>
  ELSE InsertSorted(entries[Len(entries)],
                    SortBy(SubSeq(entries, 1, Len(entries) - 1), sort_by, reverse),
                    sort_by, reverse)

\* The read loop of read_directory: the entries that pass the filters and are
\* (want_dirs) or are not directories by their metadata, in enumeration order.
RECURSIVE IncludedEntries(_, _, _)
IncludedEntries(w, entries, want_dirs) ==
  IF entries = <<>> THEN <<>>
  ELSE (IF should_include(w, Head(entries)) /\ MetaIsDir(Head(entries)) = want_dirs
        THEN <<Head(entries)>> ELSE <<>>)
         \o IncludedEntries(w, Tail(entries), want_dirs)

\* The limit loop of read_directory: is_dir is path.is_dir(), which follows
\* symbolic links.
RECURSIVE ApplyLimits(_, _, _, _)
ApplyLimits(o, entries, dir_count, file_count) ==
  IF entries = <<>> THEN <<>>
  ELSE LET path == Head(entries)
           is_dir == PathIsDir(path)
       IN  IF is_dir
           THEN IF \E max_dirs \in o.max_dirs : dir_count >= max_dirs
                THEN ApplyLimits(o, Tail(entries), dir_count, file_count)
                ELSE <<path>> \o ApplyLimits(o, Tail(entries), dir_count + 1, file_count)
           ELSE IF \E max_files \in o.max_files : file_count >= max_files
                THEN ApplyLimits(o, Tail(entries), dir_count, file_count)
                ELSE <<path>> \o ApplyLimits(o, Tail(entries), dir_count, file_count + 1)

\* Walker::read_directory(path, depth): the children filtered, sorted, limited;
\* an error when fs::read_dir fails or the metadata of an entry cannot be read.
read_directory(w, path, depth) ==
  LET o == w.filter_opts
      listed == ReadDir(path)
      dirs == IncludedEntries(w, listed, TRUE)
      files == IncludedEntries(w, listed, FALSE)
      all == dirs \o files
      entries ==
        IF o.sort_by # None
        THEN LET sort_by == CHOOSE k \in o.sort_by : TRUE
                 sort_entries == SortBy([i \in 1..Len(all) |-> SortEntry(all[i], depth)],
                                        sort_by, o.reverse_sort)
             IN  [i \in 1..Len(sort_entries) |-> sort_entries[i].path]
        ELSE all
  IN  IF ~ReadDirOk(path) THEN Err
      ELSE IF \E i \in 1..Len(listed) : ~MetadataOk(listed[i]) THEN Err
      ELSE Ok(ApplyLimits(o, entries, 0, 0))

----------------------------------------------------------------------------
(* The buffered strategies *)

\* depth < max_depth.unwrap_or(usize::MAX)
BelowMaxDepth(o, depth) == \A max_depth \in o.max_depth : depth < max_depth

\* walk_fast_unix_recursive with the test "depth > max_depth" one level late.
RECURSIVE walk_fast_late_cut(_, _, _)
RECURSIVE FastChildrenLate(_, _, _)
walk_fast_late_cut(w, path, depth) ==
  IF \E max_depth \in w.filter_opts.max_depth : depth > max_depth + 1 THEN Ok(<<>>)
  ELSE LET created == create_entry_from_path(w, path, depth)
       IN  IF ~created.ok THEN Err
           ELSE Ok(<<[created.val EXCEPT
                        !.children = FastChildrenLate(w, ReadDir(path), depth + 1)]>>)

FastChildrenLate(w, names, depth) ==
  IF names = <<>> THEN <<>>
  ELSE (IF ~w.filter_opts.show_hidden /\ FileName(Head(names)).dot THEN <<>>
        ELSE IF MetaIsDir(Head(names)) THEN walk_fast_late_cut(w, Head(names), depth).val
        ELSE <<create_entry(w, Head(names), depth)>>)
         \o FastChildrenLate(w, Tail(names), depth)

\* Walker::walk_fast_unix_recursive(path, depth): Ok of a vector of no or one
\* entry, or an error.  A directory opendir cannot open is returned without
\* children.  FastChildren is the readdir loop over the names left to read:
\* a child whose walk fails is left out.
RECURSIVE walk_fast_unix_recursive(_, _, _)
RECURSIVE FastChildren(_, _, _)

\* if let Ok(mut child_entries) = .. { if !child_entries.is_empty() { push } }
FastPushed(child_entries) ==
  IF child_entries.ok /\ child_entries.val # <<>> THEN <<child_entries.val[1]>> ELSE <<>>

walk_fast_unix_recursive(w, path, depth) ==
  IF \E max_depth \in w.filter_opts.max_depth : depth > max_depth THEN Ok(<<>>)
  ELSE LET created == create_entry_from_path(w, path, depth)
           entry == created.val
       IN  IF ~created.ok THEN Err
           ELSE IF entry.is_dir /\ BelowMaxDepth(w.filter_opts, depth)
           THEN IF ~ReadDirOk(path) THEN Ok(<<entry>>)
                ELSE Ok(<<[entry EXCEPT
                             !.children = FastChildren(w, ReadDir(path), depth + 1)]>>)
           ELSE Ok(<<entry>>)

FastChildren(w, names, depth) ==
  IF names = <<>> THEN <<>>
  ELSE (IF ~w.filter_opts.show_hidden /\ FileName(Head(names)).dot THEN <<>>
        ELSE FastPushed(walk_fast_unix_recursive(w, Head(names), depth)))
         \o FastChildren(w, Tail(names), depth)

\* Walker::walk_fast_path (unix): walk_fast_unix from the root at depth 0.
walk_fast_path(w) == walk_fast_unix_recursive(w, w.root, 0)

\* Walker::process_directory_children(parent): Ok of the parent with its
\* children, or an error.  ProcessChildren is its loop over the paths
\* read_directory returned: Ok of the children pushed, or an error.
RECURSIVE process_directory_children(_, _)
RECURSIVE ProcessChildren(_, _, _)
RECURSIVE ProcessPaths(_, _, _)
RECURSIVE Pushed(_, _)

\* parent.children, once the loop has pushed the children.
WithChildren(parent, children) ==
  IF ~children.ok THEN Err ELSE Ok([parent EXCEPT !.children = children.val])

process_directory_children(w, parent) ==
  IF \E max_depth \in w.filter_opts.max_depth : parent.depth >= max_depth THEN Ok(parent)
  ELSE WithChildren(parent,
         ProcessPaths(w, read_directory(w, parent.path, parent.depth + 1), parent.depth + 1))

\* self.read_directory(..)?, then the loop.
ProcessPaths(w, children_paths, depth) ==
  IF ~children_paths.ok THEN Err ELSE ProcessChildren(w, children_paths.val, depth)

\* The vector of one entry a call leaves, or its error.
Single(r) == IF ~r.ok THEN Err ELSE Ok(<<r.val>>)

\* What one turn of the loop pushes for the outcome r of process_entry: the
\* child, with its own children when it is a directory; nothing when it is
\* filtered out; an error of process_entry returns unless filter_opts.gitignore
\* is set, and then the child is passed over.
Pushed(w, r) ==
  IF ~r.ok THEN (IF ~w.filter_opts.gitignore THEN Err ELSE Ok(<<>>))
  ELSE IF r.val = None THEN Ok(<<>>)
  ELSE LET child_entry == CHOOSE e \in r.val : TRUE
       IN  IF child_entry.is_dir THEN Single(process_directory_children(w, child_entry))
           ELSE Ok(<<child_entry>>)

\* The children pushed so far and those of the turns that follow.
PushAll(pushed, rest) ==
  IF ~pushed.ok THEN Err
  ELSE IF ~rest.ok THEN Err
  ELSE Ok(pushed.val \o rest.val)

ProcessChildren(w, children_paths, depth) ==
  IF children_paths = <<>> THEN Ok(<<>>)
  ELSE PushAll(Pushed(w, process_entry(w, Head(children_paths), depth)),
               ProcessChildren(w, Tail(children_paths), depth))

\* walk_standard's end: the root is returned if it passes the filters or has
\* children.
RootIfIncluded(w, root_entry) ==
  IF ~root_entry.ok THEN Err
  ELSE IF should_include(w, w.root) \/ root_entry.val.children # <<>>
  THEN Ok(<<root_entry.val>>)
  ELSE Ok(<<>>)

\* Walker::walk_standard
walk_standard(w) ==
  LET created == create_entry(w, w.root, 0)
  IN  IF ~MetadataOk(w.root) THEN Err
      ELSE RootIfIncluded(w, IF created.is_dir THEN process_directory_children(w, created)
                             ELSE Ok(created))

\* calculate_dir_size that adds the files of the directory itself only.
calculate_dir_size_flat(path) ==
  LET entries == ReadDir(path)
      Sum[i \in 0..Len(entries)] ==
        IF i = 0 THEN 0
        ELSE Sum[i - 1] + (IF MetaIsDir(entries[i]) THEN 0 ELSE MetaLen(entries[i]))
  IN  Ok(Sum[Len(entries)])

\* calculate_dir_size passing over the names that start with '.'.
RECURSIVE calculate_dir_size_visible(_)
calculate_dir_size_visible(path) ==
  LET entries == SelectSeq(ReadDir(path), LAMBDA p : ~FileName(p).dot)
      below == [i \in 1..Len(entries) |->
                  IF MetaIsDir(entries[i]) THEN calculate_dir_size_visible(entries[i])
                  ELSE Ok(MetaLen(entries[i]))]
      Sum[i \in 0..Len(entries)] ==
        IF i = 0 THEN 0 ELSE Sum[i - 1] + below[i].val
  IN  IF ~ReadDirOk(path) THEN Err
      ELSE IF \E i \in 1..Len(entries) : ~MetadataOk(entries[i]) THEN Err
      ELSE IF \E i \in 1..Len(entries) : ~below[i].ok THEN Err
      ELSE Ok(Sum[Len(entries)])

\* stats::calculate_dir_size(path): calculate_dir_size_recursive adds the
\* length of every entry that is no directory to the shared counter and
\* descends into every directory; the additions commute, so the counter ends
\* as the sum whatever the order of the parallel workers.  fs::read_dir(path)?
\* and entry.metadata()? fail the directory, and try_for_each fails it when
\* one of its subdirectories fails.
RECURSIVE calculate_dir_size(_)
calculate_dir_size(path) ==
  LET entries == ReadDir(path)
      below == [i \in 1..Len(entries) |->
                  IF MetaIsDir(entries[i]) THEN calculate_dir_size(entries[i])
                  ELSE Ok(MetaLen(entries[i]))]
      Sum[i \in 0..Len(entries)] ==
        IF i = 0 THEN 0 ELSE Sum[i - 1] + below[i].val
  IN  IF ~ReadDirOk(path) THEN Err
      ELSE IF \E i \in 1..Len(entries) : ~MetadataOk(entries[i]) THEN Err
      ELSE IF \E i \in 1..Len(entries) : ~below[i].ok THEN Err
      ELSE Ok(Sum[Len(entries)])

\* calculate_dir_sizes_recursive assigning a size to every entry, 0 to those
\* that are no directories.
RECURSIVE calculate_dir_sizes_recursive_every(_)
calculate_dir_sizes_recursive_every(entries) ==
  LET size == [i \in 1..Len(entries) |->
                 IF entries[i].is_dir THEN calculate_dir_size(entries[i].path)
                 ELSE Ok(0)]
      children == [i \in 1..Len(entries) |->
                     calculate_dir_sizes_recursive_every(entries[i].children)]
  IN  IF \E i \in 1..Len(entries) : ~size[i].ok \/ ~children[i].ok THEN Err
      ELSE Ok([i \in 1..Len(entries) |->
                 [entries[i] EXCEPT !.size = size[i].val, !.children = children[i].val]])

\* Walker::calculate_dir_sizes_recursive(entries): the loop returns at the
\* first error (calculate_dir_size(..)? and the recursive call's ?).
RECURSIVE calculate_dir_sizes_recursive(_)
calculate_dir_sizes_recursive(entries) ==
  LET size == [i \in 1..Len(entries) |->
                 IF entries[i].is_dir THEN calculate_dir_size(entries[i].path)
                 ELSE Ok(entries[i].size)]
      children == [i \in 1..Len(entries) |->
                     calculate_dir_sizes_recursive(entries[i].children)]
  IN  IF \E i \in 1..Len(entries) : ~size[i].ok \/ ~children[i].ok THEN Err
      ELSE Ok([i \in 1..Len(entries) |->
                 [entries[i] EXCEPT !.size = size[i].val, !.children = children[i].val]])

\* Walker::calculate_dir_sizes(entries): with thread_count > 1 the top-level
\* entries are processed by parallel workers (par_iter_mut().try_for_each),
\* each on its own entry, else by a loop; either returns an error when the
\* size of one entry cannot be computed.
calculate_dir_sizes(w, entries) ==
  LET size == [i \in 1..Len(entries) |->
                 IF entries[i].is_dir THEN calculate_dir_size(entries[i].path)
                 ELSE Ok(entries[i].size)]
      children == [i \in 1..Len(entries) |->
                     calculate_dir_sizes_recursive(entries[i].children)]
  IN  IF \E i \in 1..Len(entries) : ~size[i].ok \/ ~children[i].ok THEN Err
      ELSE Ok([i \in 1..Len(entries) |->
                 [entries[i] EXCEPT !.size = size[i].val, !.children = children[i].val]])

\* walk_full after self.walk_standard()?
SizesIfRequested(w, entries) ==
  IF ~entries.ok THEN Err
  ELSE IF w.dir_sizes THEN calculate_dir_sizes(w, entries.val)
  ELSE entries

\* Walker::walk_full
walk_full(w) == SizesIfRequested(w, walk_standard(w))

\* Walker::walk
walk(w) ==
  CASE w.mode = "FastPath" -> walk_fast_path(w)
    [] w.mode = "Standard" -> walk_standard(w)
    [] w.mode = "Full" -> walk_full(w)

----------------------------------------------------------------------------
(* The streaming strategy (StreamWalker) *)

\* A line written to the sink: the path printed (plain) or the name with its
\* prefix of connector flags (tree); depth and is_dir are the values the call
\* that wrote the line had.
Line(path, depth, is_dir, prefix) ==
  [path |-> path, depth |-> depth, is_dir |-> is_dir, prefix |-> prefix]

\* What a streaming call has written and counted, and whether it returned Ok.
Written(ok, written, dirs, files) ==
  [ok |-> ok, lines |-> written, dir_count |-> dirs, file_count |-> files]

\* What a call has written followed by what the calls after it write; the ?
\* on a call returns at its error with what was written until then.
AndThen(first, rest) ==
  IF ~first.ok THEN first
  ELSE Written(rest.ok, first.lines \o rest.lines,
               first.dir_count + rest.dir_count, first.file_count + rest.file_count)

\* walker.read_directory(path, depth + 1)? after the line of the path.
AfterRead(printed, children) == IF ~children.ok THEN [printed EXCEPT !.ok = FALSE] ELSE printed

\* StreamWalker::walk_and_print_plain(walker, path, depth): the lines written
\* until the call returned; read_directory(..)? and the recursive call's ?
\* return at the first error.  Nothing is counted.
RECURSIVE walk_and_print_plain(_, _, _)
RECURSIVE PlainChildren(_, _, _)
RECURSIVE PlainDescend(_, _, _, _)
walk_and_print_plain(w, path, depth) ==
  IF \E max_depth \in w.filter_opts.max_depth : depth > max_depth
  THEN Written(TRUE, <<>>, 0, 0)
  ELSE LET printed == Written(TRUE, <<Line(path, depth, MetaIsDir(path), <<>>)>>, 0, 0)
       IN  IF PathIsDir(path) /\ BelowMaxDepth(w.filter_opts, depth)
           THEN PlainDescend(w, printed, read_directory(w, path, depth + 1), depth + 1)
           ELSE printed

PlainDescend(w, printed, children, depth) ==
  AndThen(AfterRead(printed, children), PlainChildren(w, children.val, depth))

PlainChildren(w, children, depth) ==
  IF children = <<>> THEN Written(TRUE, <<>>, 0, 0)
  ELSE AndThen(walk_and_print_plain(w, Head(children), depth),
               PlainChildren(w, Tail(children), depth))

\* StreamWalker::walk_and_print_tree(walker, path, depth, prefix): the lines
\* written and the increments of dir_count and file_count until the call
\* returned.  is_dir is false when symlink_metadata(path) fails.
RECURSIVE walk_and_print_tree(_, _, _, _)
RECURSIVE TreeChildren(_, _, _, _, _)
RECURSIVE TreeDescend(_, _, _, _, _)

\* walk_and_print_tree counting regular files alone in file_count.
walk_and_print_tree_regular(w, path, depth, prefix) ==
  IF \E max_depth \in w.filter_opts.max_depth : depth > max_depth
  THEN Written(TRUE, <<>>, 0, 0)
  ELSE LET is_dir == MetadataOk(path) /\ MetaIsDir(path)
           printed == Written(TRUE, <<Line(path, depth, is_dir, prefix)>>,
                              IF is_dir THEN 1 ELSE 0,
                              IF MetadataOk(path) /\ MetaIsFile(path) THEN 1 ELSE 0)
       IN  IF PathIsDir(path) /\ BelowMaxDepth(w.filter_opts, depth)
           THEN TreeDescend(w, printed, read_directory(w, path, depth + 1), depth + 1, prefix)
           ELSE printed

walk_and_print_tree(w, path, depth, prefix) ==
  IF \E max_depth \in w.filter_opts.max_depth : depth > max_depth
  THEN Written(TRUE, <<>>, 0, 0)
  ELSE LET is_dir == MetadataOk(path) /\ MetaIsDir(path)
           printed == Written(TRUE, <<Line(path, depth, is_dir, prefix)>>,
                              IF is_dir THEN 1 ELSE 0, IF is_dir THEN 0 ELSE 1)
       IN  IF PathIsDir(path) /\ BelowMaxDepth(w.filter_opts, depth)
           THEN TreeDescend(w, printed, read_directory(w, path, depth + 1), depth + 1, prefix)
           ELSE printed

TreeDescend(w, printed, children, depth, prefix) ==
  AndThen(AfterRead(printed, children), TreeChildren(w, children.val, 1, depth, prefix))

TreeChildren(w, children, i, depth, prefix) ==
  IF i > Len(children) THEN Written(TRUE, <<>>, 0, 0)
  ELSE AndThen(walk_and_print_tree(w, children[i], depth, Append(prefix, i = Len(children))),
               TreeChildren(w, children, i + 1, depth, prefix))

\* What StreamWalker::stream leaves behind: the lines written, the counts of
\* the StreamWalker, whether the summary line was printed, and Ok or Err.
StreamOutcome(out, summary) ==
  [ok |-> out.ok, lines |-> out.lines, dir_count |-> out.dir_count,
   file_count |-> out.file_count, summary |-> summary]

\* StreamWalker::stream_plain(root): Walker::new(root, filter_opts, 1), then
\* the walk from the root as given.  Nothing is counted and no summary is
\* printed.
stream_plain(filter_opts) ==
  LET w == WalkerNew(filter_opts, 1)
  IN  StreamOutcome(walk_and_print_plain(w, <<1>>, 0), FALSE)

\* stream_tree after self.walk_and_print_tree(..)?: the summary line.
Summarised(out) == StreamOutcome(out, out.ok)

\* StreamWalker::stream_tree(root) on a fresh StreamWalker (both counts 0):
\* the walk, then (unless the walk failed) the summary line with the counts.
stream_tree(filter_opts) ==
  LET w == WalkerNew(filter_opts, 1)
  IN  Summarised(walk_and_print_tree(w, <<1>>, 0, <<>>))

\* StreamWalker::stream(root), the StreamWalker built with the format.
stream(format, filter_opts) ==
  CASE format = "Plain" -> stream_plain(filter_opts)
    [] format = "Tree" -> stream_tree(filter_opts)
    [] format \in {"Json", "Csv"} ->
         StreamOutcome(Written(FALSE, <<>>, 0, 0), FALSE)

----------------------------------------------------------------------------
(* The state machine: one run of the program on one tree *)

\* The options tried: the defaults with at most two settings changed.
OneSetting(o) ==
  {[o EXCEPT !.show_hidden = TRUE], [o EXCEPT !.only_dirs = TRUE],
   [o EXCEPT !.only_files = TRUE], [o EXCEPT !.search = Some("main")],
   [o EXCEPT !.include = Some("main")], [o EXCEPT !.exclude = Some("main")],
   [o EXCEPT !.min_size = Some(10)], [o EXCEPT !.max_size = Some(10)],
   [o EXCEPT !.newer_than = Some(1)], [o EXCEPT !.older_than = Some(2)],
   [o EXCEPT !.sort_by = Some("Size")], [o EXCEPT !.reverse_sort = TRUE]}
    \cup {[o EXCEPT !.max_depth = Some(d)] : d \in 0..MaxDepthOpt}
    \cup {[o EXCEPT !.max_dirs = Some(c)] : c \in 0..MaxCap}
    \cup {[o EXCEPT !.max_files = Some(c)] : c \in 0..MaxCap}

OptionSets ==
  {DefaultOptions} \cup OneSetting(DefaultOptions)
    \cup UNION {OneSetting(o) : o \in OneSetting(DefaultOptions)}

ThreadCounts == {1}

\* The sizes a caller passes to set_max_file_size.
MaxFileSizes == {0, 10, DefaultMaxFileSize}

\* impl Default for Args, the fields run_tree and from_args_and_config read.
\* A pattern, size or duration argument is None or a well-formed string.
DefaultArgs ==
  [unicode |-> TRUE, max_dirs |-> None, max_files |-> None, show_size |-> TRUE,
   show_lines |-> FALSE, dir_sizes |-> FALSE, max_file_size |-> DefaultMaxFileSize,
   include |-> None, exclude |-> None, only_dirs |-> FALSE, only_files |-> FALSE,
   min_size |-> None, max_size |-> None, newer_than |-> None, older_than |-> None,
   gitignore |-> FALSE, all |-> FALSE, sort |-> None, reverse |-> FALSE,
   search |-> None, total_size |-> FALSE, dist |-> None, depth |-> None,
   output |-> "Tree", threads |-> 0]

\* impl Default for DisplayConfig, FilterConfig and PerformanceConfig.
DefaultConfig ==
  [display |-> [unicode |-> TRUE, show_size |-> TRUE, show_lines |-> FALSE,
                dir_sizes |-> FALSE, total_size |-> TRUE],
   filters |-> [show_hidden |-> FALSE, gitignore |-> FALSE, max_depth |-> None,
                max_dirs |-> None, max_files |-> None, sort_by |-> None,
                reverse_sort |-> FALSE],
   performance |-> [threads |-> 0, max_file_size |-> DefaultMaxFileSize]]

\* A size or duration argument as the parsers split it: the number in
\* front (None when it is no number) and the unit after it.
Str(num, unit) == [num |-> num, unit |-> unit]

\* compile_regex(pattern, ignore_case): an unbalanced "(" does not build.
compile_regex(pattern) == IF pattern = "(" THEN Err ELSE Ok(pattern)

\* parse_size(size_str), upper-cased
parse_size(size_str) ==
  IF size_str.num = None THEN Err
  ELSE LET num == CHOOSE n \in size_str.num : TRUE
       IN  CASE size_str.unit \in {"", "B"} -> Ok(num)
             [] size_str.unit \in {"K", "KB"} -> Ok(num * 1024)
             [] size_str.unit \in {"M", "MB"} -> Ok(num * 1024 * 1024)
             [] size_str.unit \in {"G", "GB"} -> Ok(num * 1024 * 1024 * 1024)
             [] size_str.unit \in {"T", "TB"} -> Ok(num * 1024 * 1024 * 1024 * 1024)
             [] OTHER -> Err

\* parse_duration(time_str), lower-cased: seconds
parse_duration(time_str) ==
  IF time_str.unit = "" \/ time_str.num = None THEN Err
  ELSE LET num == CHOOSE n \in time_str.num : TRUE
       IN  CASE time_str.unit \in {"s", "sec", "second", "seconds"} -> Ok(num)
             [] time_str.unit \in {"m", "min", "minute", "minutes"} -> Ok(num * 60)
             [] time_str.unit \in {"h", "hr", "hour", "hours"} -> Ok(num * 60 * 60)
             [] time_str.unit \in {"d", "day", "days"} -> Ok(num * 60 * 60 * 24)
             [] time_str.unit \in {"w", "week", "weeks"} -> Ok(num * 60 * 60 * 24 * 7)
             [] OTHER -> Err

\* Option::or
OrElse(a, b) == IF a # None THEN a ELSE b

\* The string of a Some(..) argument.
Unwrapped(arg) == CHOOSE x \in arg : TRUE

\* if let Some(s) = &arg { field = Some(parse(s)?) }: r is the outcome of
\* parsing the string, looked at when there is one.
ParseOpt(arg, r) ==
  IF arg = None THEN Ok(None)
  ELSE IF r.ok THEN Ok(Some(r.val))
  ELSE Err

\* FilterOptions::from_args_and_config(args, config)
from_args_and_config(a, c) ==
  LET include == ParseOpt(a.include, compile_regex(Unwrapped(a.include)))
      exclude == ParseOpt(a.exclude, compile_regex(Unwrapped(a.exclude)))
      search == ParseOpt(a.search, compile_regex(Unwrapped(a.search)))
      min_size == ParseOpt(a.min_size, parse_size(Unwrapped(a.min_size)))
      max_size_ == ParseOpt(a.max_size, parse_size(Unwrapped(a.max_size)))
      newer_than == ParseOpt(a.newer_than, parse_duration(Unwrapped(a.newer_than)))
      older_than == ParseOpt(a.older_than, parse_duration(Unwrapped(a.older_than)))
  IN  IF ~(include.ok /\ exclude.ok /\ search.ok /\ min_size.ok /\ max_size_.ok
            /\ newer_than.ok /\ older_than.ok)
      THEN Err
      ELSE Ok([include |-> include.val, exclude |-> exclude.val,
               only_dirs |-> a.only_dirs, only_files |-> a.only_files,
               min_size |-> min_size.val, max_size |-> max_size_.val,
               newer_than |-> newer_than.val, older_than |-> older_than.val,
               gitignore |-> a.gitignore \/ c.filters.gitignore,
               show_hidden |-> a.all \/ c.filters.show_hidden,
               search |-> search.val,
               max_depth |-> OrElse(a.depth, c.filters.max_depth),
               max_dirs |-> OrElse(a.max_dirs, c.filters.max_dirs),
               max_files |-> OrElse(a.max_files, c.filters.max_files),
               sort_by |-> OrElse(a.sort, c.filters.sort_by),
               reverse_sort |-> a.reverse \/ c.filters.reverse_sort])

\* needs_buffering with the sort key read from the arguments alone.
needs_buffering_args_sort(a, filter_opts) ==
  \/ a.output \in {"Json", "Csv"}
  \/ a.dist # None
  \/ a.total_size
  \/ a.dir_sizes
  \/ a.sort # None

\* run_tree: needs_buffering
needs_buffering(a, filter_opts) ==
  \/ a.output \in {"Json", "Csv"}
  \/ a.dist # None
  \/ a.total_size
  \/ a.dir_sizes
  \/ filter_opts.sort_by # None

\* run_tree, the buffered branch: the walker as it is configured before walk().
BufferedWalker(a, filter_opts) ==
  LET w0 == set_max_file_size(WalkerNew(filter_opts, a.threads), a.max_file_size)
      w1 == IF a.show_lines THEN enable_line_counting(w0) ELSE w0
  IN  IF a.dir_sizes THEN enable_dir_sizes(w1) ELSE w1

\* What the last operation left behind: ok is FALSE when it returned an
\* error; summary: the summary line of a tree stream was printed.
\* path: the branch run_tree took ("stream", "buffered", or "none" when it
\* returned before choosing); format: the format stream was called with.
NoResult ==
  [op |-> "none", cfg |-> <<>>, at |-> 0, ok |-> TRUE, entries |-> <<>>, lines |-> <<>>,
   dir_count |-> 0, file_count |-> 0, summary |-> FALSE, path |-> "none",
   format |-> "none"]

\* What a walk leaves behind: the walker it ran on and the entries or the error.
WalkResult(op, cfg, r) ==
  [NoResult EXCEPT !.op = op, !.cfg = cfg, !.at = now, !.ok = r.ok, !.entries = r.val]

\* What a stream leaves behind: the lines, the counts, the summary or the error.
StreamResult(op, out) ==
  [NoResult EXCEPT !.op = op, !.at = now, !.ok = out.ok, !.lines = out.lines,
                   !.dir_count = out.dir_count, !.file_count = out.file_count,
                   !.summary = out.summary]

Init ==
  /\ fs \in Trees
  /\ opts \in OptionSets
  /\ walker = <<>>
  /\ now = 2
  /\ result = NoResult
  /\ prev = NoResult
  /\ file = <<>>
  /\ max_size = 0
  /\ lines = <<>>
  /\ StepIdle
  /\ SizeIdle
  /\ args = DefaultArgs
  /\ config = DefaultConfig
  /\ ignore_loads = TRUE

\* Walker::new(root, filter_opts, thread_count)
New ==
  /\ walker = <<>>
  /\ result.op = "none"
  /\ running = "none"
  /\ \E thread_count \in ThreadCounts : walker' = <<WalkerNew(opts, thread_count)>>
  /\ UNCHANGED <<fs, opts, now, result, prev, lineVars, runVars, stepVars, sizeVars>>

\* Walker::new(root, filter_opts, 0): one thread per processor.
NewParallel ==
  /\ walker = <<>>
  /\ result.op = "none"
  /\ running = "none"
  /\ walker' = <<WalkerNew(opts, 0)>>
  /\ UNCHANGED <<fs, opts, now, result, prev, lineVars, runVars, stepVars, sizeVars>>

\* Walker::enable_line_counting
EnableLineCounting ==
  /\ walker # <<>>
  /\ result.op = "none"
  /\ running = "none"
  /\ walker' = <<enable_line_counting(walker[1])>>
  /\ UNCHANGED <<fs, opts, now, result, prev, lineVars, runVars, stepVars, sizeVars>>

\* Walker::enable_dir_sizes
EnableDirSizes ==
  /\ walker # <<>>
  /\ result.op = "none"
  /\ running = "none"
  /\ walker' = <<enable_dir_sizes(walker[1])>>
  /\ UNCHANGED <<fs, opts, now, result, prev, lineVars, runVars, stepVars, sizeVars>>

\* Walker::walk
Walk ==
  /\ walker # <<>>
  /\ result.op = "none"
  /\ running = "none"
  /\ prev' = result
  /\ result' = WalkResult("walk", walker, walk(walker[1]))
  /\ UNCHANGED <<fs, opts, walker, now, lineVars, runVars, stepVars, sizeVars>>

\* Walker::walk a second time on the same walker.
WalkAgain ==
  /\ walker # <<>>
  /\ result.op = "walk"
  /\ prev.op = "none"
  /\ prev' = result
  /\ result' = WalkResult("walk", walker, walk(walker[1]))
  /\ UNCHANGED <<fs, opts, walker, now, lineVars, runVars, stepVars, sizeVars>>

\* StreamWalker::new(filter_opts, Plain, ..).stream(root)
StreamPlain ==
  /\ walker = <<>>
  /\ result.op = "none"
  /\ prev' = result
  /\ result' = StreamResult("stream_plain", stream_plain(opts))
  /\ UNCHANGED <<fs, opts, walker, now, lineVars, runVars, stepVars, sizeVars>>

\* StreamWalker::new(filter_opts, Tree, ..).stream(root)
StreamTree ==
  /\ walker = <<>>
  /\ result.op = "none"
  /\ prev' = result
  /\ result' = StreamResult("stream_tree", stream_tree(opts))
  /\ UNCHANGED <<fs, opts, walker, now, lineVars, runVars, stepVars, sizeVars>>

\* Walker::set_max_file_size(size)
SetMaxFileSize ==
  /\ walker # <<>>
  /\ result.op = "none"
  /\ running = "none"
  /\ \E size \in MaxFileSizes : walker' = <<set_max_file_size(walker[1], size)>>
  /\ UNCHANGED <<fs, opts, now, result, prev, lineVars, runVars, stepVars, sizeVars>>

\* run_tree(path, args, config): the options, then the streaming branch or
\* the buffered one.
RunTree ==
  /\ walker = <<>>
  /\ result.op = "none"
  /\ prev' = result
  /\ LET fo == from_args_and_config(args, config)
     IN  IF ~fo.ok
         THEN /\ result' = [NoResult EXCEPT !.op = "run", !.at = now, !.ok = FALSE]
              /\ UNCHANGED <<opts, walker>>
         ELSE IF ~needs_buffering(args, fo.val)
         THEN /\ result' = [StreamResult("run", stream(args.output, fo.val))
                                EXCEPT !.path = "stream", !.format = args.output]
              /\ opts' = fo.val
              /\ UNCHANGED walker
         ELSE LET w == BufferedWalker(args, fo.val)
              IN  /\ result' = [WalkResult("run", <<w>>, walk(w)) EXCEPT !.path = "buffered"]
                  /\ opts' = fo.val
                  /\ walker' = <<w>>
  /\ UNCHANGED <<fs, now, lineVars, runVars, stepVars, sizeVars>>

\* Time passes between two walks.
Tick ==
  /\ result.op = "walk"
  /\ prev.op = "none"
  /\ now < 2 + MaxTicks
  /\ now' = now + 1
  /\ UNCHANGED <<fs, opts, walker, result, prev, lineVars, runVars, stepVars, sizeVars>>

Next ==
  \/ New
  \/ EnableLineCounting
  \/ EnableDirSizes
  \/ Walk
  \/ StreamPlain
  \/ StreamTree

Spec == Init /\ [][Next]_vars

----------------------------------------------------------------------------
(* Two walks of one walker, time passing in between *)

InitTwice ==
  /\ fs \in Trees
  /\ opts \in {DefaultOptions} \cup OneSetting(DefaultOptions)
  /\ walker = <<>>
  /\ now = 2
  /\ result = NoResult
  /\ prev = NoResult
  /\ file = <<>>
  /\ max_size = 0
  /\ lines = <<>>
  /\ StepIdle
  /\ SizeIdle
  /\ args = DefaultArgs
  /\ config = DefaultConfig
  /\ ignore_loads = TRUE

NextTwice ==
  \/ New
  \/ EnableLineCounting
  \/ EnableDirSizes
  \/ Walk
  \/ Tick
  \/ WalkAgain

SpecTwice == InitTwice /\ [][NextTwice]_vars

----------------------------------------------------------------------------
(* The line counter alone: one call of count_lines on one file *)

RECURSIVE FilesOfRuns(_)
FilesOfRuns(k) ==
  IF k = 0 THEN {<<>>}
  ELSE LET shorter == FilesOfRuns(k - 1)
       IN  shorter \cup {Append(f, Run(b, n)) : f \in shorter, b \in ByteClasses, n \in RunLens}

Files == FilesOfRuns(MaxRuns)
MaxSizes == {0, 512, DefaultMaxFileSize}

InitLines ==
  /\ file \in Files
  /\ max_size \in MaxSizes
  /\ lines = <<>>
  /\ StepIdle
  /\ SizeIdle
  /\ fs = [n \in Nodes |-> Absent]
  /\ opts = DefaultOptions
  /\ walker = <<>>
  /\ now = 2
  /\ result = NoResult
  /\ prev = NoResult
  /\ args = DefaultArgs
  /\ config = DefaultConfig
  /\ ignore_loads = TRUE

\* count_lines(path, max_size)
CountLines ==
  /\ lines = <<>>
  /\ StepIdle
  /\ SizeIdle
  /\ lines' = <<count_lines(file, max_size)>>
  /\ UNCHANGED <<file, max_size, walkVars, runVars, stepVars, sizeVars>>

NextLines == CountLines

SpecLines == InitLines /\ [][NextLines]_vars

----------------------------------------------------------------------------
(* Walker::new alone, for every combination of options set and not set *)

\* The tree of a single empty directory.
EmptyRoot == [n \in Nodes |-> IF n \in Root THEN Dir(FALSE, "lib") ELSE Absent]

\* FilterOptions with every setting either at its default or set.
ModeOptions ==
  [include : {None, Some("main")}, exclude : {None, Some("main")},
   only_dirs : BOOLEAN, only_files : BOOLEAN,
   min_size : {None, Some(10)}, max_size : {None, Some(10)},
   newer_than : {None, Some(1)}, older_than : {None, Some(2)},
   gitignore : BOOLEAN, show_hidden : BOOLEAN, search : {None, Some("main")},
   max_depth : {None, Some(1)}, max_dirs : {None, Some(1)}, max_files : {None, Some(1)},
   sort_by : {None, Some("Size")}, reverse_sort : {FALSE}]

InitMode ==
  /\ fs = EmptyRoot
  /\ opts \in ModeOptions
  /\ ignore_loads \in BOOLEAN
  /\ walker = <<>>
  /\ now = 2
  /\ result = NoResult
  /\ prev = NoResult
  /\ file = <<>>
  /\ max_size = 0
  /\ lines = <<>>
  /\ StepIdle
  /\ SizeIdle
  /\ args = DefaultArgs
  /\ config = DefaultConfig

NextMode == New

SpecMode == InitMode /\ [][NextMode]_vars

\* ---------------------------------------------------------------------------
\* A walker and its setters: any sequence of enable_line_counting,
\* enable_dir_sizes and set_max_file_size after construction.
\* ---------------------------------------------------------------------------
EscalateOptions ==
  {DefaultOptions} \cup OneSetting(DefaultOptions)
    \cup {[DefaultOptions EXCEPT !.gitignore = TRUE]}

InitEscalate ==
  /\ fs = EmptyRoot
  /\ opts \in EscalateOptions
  /\ walker = <<>>
  /\ now = 2
  /\ result = NoResult
  /\ prev = NoResult
  /\ file = <<>>
  /\ max_size = 0
  /\ lines = <<>>
  /\ StepIdle
  /\ SizeIdle
  /\ args = DefaultArgs
  /\ config = DefaultConfig
  /\ ignore_loads \in BOOLEAN

NextEscalate ==
  \/ New
  \/ EnableLineCounting
  \/ EnableDirSizes
  \/ SetMaxFileSize

SpecEscalate == InitEscalate /\ [][NextEscalate]_vars

\* ---------------------------------------------------------------------------
\* run_tree on one tree, for the arguments and the configuration that enter
\* the choice between streaming and buffering.
\* ---------------------------------------------------------------------------
SampleTree ==
  [n \in Nodes |->
     CASE n \in {1, 2, 5} -> Dir(FALSE, "lib")
       [] n = 3 -> File(FALSE, "main", Bytes1, 1)
       [] n = 4 -> File(FALSE, "lib", Bytes10, 1)
       [] n = 6 -> File(FALSE, "lib", Bytes1000, 0)]

RunArgs ==
  {[DefaultArgs EXCEPT !.output = output, !.dist = dist, !.total_size = total_size,
                       !.dir_sizes = dir_sizes, !.sort = sort, !.search = search,
                       !.min_size = min_size, !.show_lines = show_lines] :
     output \in {"Tree", "Plain", "Json", "Csv"},
     dist \in {None, Some("size")},
     total_size \in BOOLEAN,
     dir_sizes \in BOOLEAN,
     sort \in {None, Some("Size")},
     search \in {None, Some("main"), Some("(")},
     min_size \in {None, Some(Str(Some(1), "K")), Some(Str(None, ""))},
     show_lines \in BOOLEAN}

RunConfigs ==
  {[DefaultConfig EXCEPT !.filters.sort_by = sort_by, !.display.dir_sizes = dir_sizes,
                         !.display.total_size = total_size] :
     sort_by \in {None, Some("Name")},
     dir_sizes \in BOOLEAN,
     total_size \in BOOLEAN}

InitRun ==
  /\ fs = SampleTree
  /\ opts = DefaultOptions
  /\ walker = <<>>
  /\ now = 2
  /\ result = NoResult
  /\ prev = NoResult
  /\ file = <<>>
  /\ max_size = 0
  /\ lines = <<>>
  /\ StepIdle
  /\ SizeIdle
  /\ args \in RunArgs
  /\ config \in RunConfigs
  /\ ignore_loads = TRUE

NextRun == RunTree

SpecRun == InitRun /\ [][NextRun]_vars

\* ---------------------------------------------------------------------------
\* Trees with an ignore file at the root: the rules match any objects below
\* the root, and the matcher is built or not.
\* ---------------------------------------------------------------------------
BaseTrees ==
  {SampleTree,
   [SampleTree EXCEPT ![4] = Dir(FALSE, "lib")],
   [SampleTree EXCEPT ![3] = Symlink(FALSE, 2), ![6] = File(TRUE, "main", Bytes1, 1)],
   [SampleTree EXCEPT ![2] = File(FALSE, "main", Bytes1, 0), ![5] = Absent, ![6] = Absent]}

IgnoreTrees ==
  UNION {{[n \in Nodes |-> [t[n] EXCEPT !.ign = n \in S]] :
            S \in SUBSET {n \in 2..6 : t[n].kind # "absent"}} : t \in BaseTrees}

IgnoreOptions ==
  LET g == [DefaultOptions EXCEPT !.gitignore = TRUE]
  IN  {DefaultOptions, g} \cup OneSetting(g)

InitIgnore ==
  /\ fs \in IgnoreTrees
  /\ opts \in IgnoreOptions
  /\ walker = <<>>
  /\ now = 2
  /\ result = NoResult
  /\ prev = NoResult
  /\ file = <<>>
  /\ max_size = 0
  /\ lines = <<>>
  /\ StepIdle
  /\ SizeIdle
  /\ args = DefaultArgs
  /\ config = DefaultConfig
  /\ ignore_loads \in BOOLEAN

NextIgnore ==
  \/ New
  \/ EnableLineCounting
  \/ EnableDirSizes
  \/ Walk
  \/ StreamPlain
  \/ StreamTree

SpecIgnore == InitIgnore /\ [][NextIgnore]_vars

\* ---------------------------------------------------------------------------
\* Trees with directories the process may not list ("noread") or may list
\* without reaching what is inside ("nosearch").
\* ---------------------------------------------------------------------------
Perms == {"ok", "noread", "nosearch"}

ErrTrees ==
  UNION {{[n \in Nodes |-> [t[n] EXCEPT !.perm = pm[n]]] :
            pm \in {f \in [Nodes -> Perms] :
                      \A n \in Nodes : t[n].kind # "dir" => f[n] = "ok"}} :
         t \in BaseTrees}

ErrOptions ==
  LET g == [DefaultOptions EXCEPT !.gitignore = TRUE]
  IN  {DefaultOptions, g, [g EXCEPT !.max_depth = Some(1)]}
        \cup OneSetting(DefaultOptions)

InitErr ==
  /\ fs \in ErrTrees
  /\ opts \in ErrOptions
  /\ walker = <<>>
  /\ now = 2
  /\ result = NoResult
  /\ prev = NoResult
  /\ file = <<>>
  /\ max_size = 0
  /\ lines = <<>>
  /\ StepIdle
  /\ SizeIdle
  /\ args = DefaultArgs
  /\ config = DefaultConfig
  /\ ignore_loads \in BOOLEAN

NextErr ==
  \/ New
  \/ NewParallel
  \/ EnableLineCounting
  \/ EnableDirSizes
  \/ Walk
  \/ StreamPlain
  \/ StreamTree

SpecErr == InitErr /\ [][NextErr]_vars

\* ---------------------------------------------------------------------------
\* Every sort key, reversed and not, on every tree, with and without line
\* counting.
\* ---------------------------------------------------------------------------
SortOptions ==
  {[DefaultOptions EXCEPT !.sort_by = Some(sort_by), !.reverse_sort = reverse] :
     sort_by \in {"Name", "Size", "Time", "Ext", "Lines"}, reverse \in BOOLEAN}

InitSort ==
  /\ fs \in Trees
  /\ opts \in SortOptions
  /\ walker = <<>>
  /\ now = 2
  /\ result = NoResult
  /\ prev = NoResult
  /\ file = <<>>
  /\ max_size = 0
  /\ lines = <<>>
  /\ StepIdle
  /\ SizeIdle
  /\ args = DefaultArgs
  /\ config = DefaultConfig
  /\ ignore_loads = TRUE

NextSort ==
  \/ New
  \/ EnableLineCounting
  \/ Walk

SpecSort == InitSort /\ [][NextSort]_vars

\* ---------------------------------------------------------------------------
\* The filter predicate on one object inside the root, for every kind, name,
\* size at and around the bounds, and modification time (none, old, recent,
\* in the future), under the options of OptionSets.
\* ---------------------------------------------------------------------------
FilterSizes == {9, 10, 11}
FilterMtimes == {NoMtime, 0, 1, 3}

FilterObjects ==
  {[kind |-> kind, dot |-> dot, stem |-> stem, size |-> size, mtime |-> mtime,
    target |-> IF kind = "symlink" THEN 3 ELSE 0, bytes |-> <<>>, ign |-> FALSE,
    perm |-> "ok"] :
     kind \in {"dir", "file", "symlink"}, dot \in BOOLEAN, stem \in {"lib", "main"},
     size \in FilterSizes, mtime \in FilterMtimes}

FilterTrees ==
  {[n \in Nodes |->
      CASE n = 1 -> Dir(FALSE, "lib")
        [] n = 2 -> object
        [] n = 3 -> File(FALSE, "lib", Bytes1, 1)
        [] OTHER -> Absent] : object \in FilterObjects}

InitFilter ==
  /\ fs \in FilterTrees
  /\ opts \in OptionSets
  /\ walker = <<>>
  /\ now = 2
  /\ result = NoResult
  /\ prev = NoResult
  /\ file = <<>>
  /\ max_size = 0
  /\ lines = <<>>
  /\ StepIdle
  /\ SizeIdle
  /\ args = DefaultArgs
  /\ config = DefaultConfig
  /\ ignore_loads = TRUE

NextFilter ==
  \/ New
  \/ Walk
  \/ StreamPlain

SpecFilter == InitFilter /\ [][NextFilter]_vars

\* ---------------------------------------------------------------------------
\* A stream and a Standard walk followed call by call, and the size pass
\* followed worker by worker, on trees with symbolic links to a directory
\* they lie in.
\* ---------------------------------------------------------------------------

\* The calls that fit on the stack: more than any path the system resolves
\* has components.
MaxCalls == Cardinality(Nodes) * (MaxSymlinks + 2)

\* A call of walk_and_print_plain / walk_and_print_tree on path, or of
\* process_directory_children on the entry of path: pc is "enter" at the
\* start of the body and "loop" in the loop over children, i of which have
\* been taken.
Frame(path, depth, entry) ==
  [path |-> path, depth |-> depth, entry |-> entry, pc |-> "enter", children |-> <<>>, i |-> 0]

\* A call made at the end of the queue of what is to run, so that the caller
\* goes on before it.
CallDeferred(stack, frame) == <<frame>> \o stack

\* A call: the frame goes on top of the stack and runs before the caller
\* goes on.
Call(stack, frame) == Append(stack, frame)

\* The stack with the frame on top replaced, and with it popped.
WithTop(stack, frame) == [stack EXCEPT ![Len(stack)] = frame]
Popped(stack) == SubSeq(stack, 1, Len(stack) - 1)

\* prefix.pop() that leaves the flag on the stack.
pop_nothing(stack) == stack

\* prefix.pop(): the flag pushed for the child is taken off again.
pop(stack) == SubSeq(stack, 1, Len(stack) - 1)

\* StreamWalker::stream(root) up to the first call of walk_and_print_*:
\* Walker::new(root, filter_opts, 1) and, for the tree format, an empty prefix.
StreamStart ==
  /\ running = "none"
  /\ walker = <<>>
  /\ result.op = "none"
  /\ \E format \in {"stream_plain", "stream_tree"} : running' = format
  /\ calls' = <<Frame(<<1>>, 0, <<>>)>>
  /\ prefix_stack' = <<>>
  /\ UNCHANGED <<walkVars, lineVars, runVars, returned, stdout, counts, entries_created,
                 built, sizeVars>>

\* The body of walk_and_print_plain / walk_and_print_tree up to its loop: the
\* depth check, the line, the counts, and read_directory(..)? when the path
\* is a directory to descend into; an error returns from every call.
StreamVisit ==
  /\ running \in {"stream_plain", "stream_tree"}
  /\ calls # <<>>
  /\ Last(calls).pc = "enter"
  /\ LET w == WalkerNew(opts, 1)
         f == Last(calls)
         tree == running = "stream_tree"
         is_dir == IF tree THEN MetadataOk(f.path) /\ MetaIsDir(f.path) ELSE MetaIsDir(f.path)
         children == read_directory(w, f.path, f.depth + 1)
     IN  IF \E max_depth \in opts.max_depth : f.depth > max_depth
         THEN /\ calls' = WithTop(calls, [f EXCEPT !.pc = "loop"])
              /\ UNCHANGED <<stdout, counts, returned>>
         ELSE /\ stdout' = Append(stdout, Line(f.path, f.depth, is_dir,
                                               IF tree THEN prefix_stack ELSE <<>>))
              /\ counts' = IF ~tree THEN counts
                           ELSE IF is_dir THEN [counts EXCEPT !.dir_count = @ + 1]
                           ELSE [counts EXCEPT !.file_count = @ + 1]
              /\ IF PathIsDir(f.path) /\ BelowMaxDepth(opts, f.depth)
                 THEN IF ~children.ok
                      THEN calls' = <<>> /\ returned' = "err"
                      ELSE /\ calls' = WithTop(calls, [f EXCEPT !.pc = "loop",
                                                                !.children = children.val])
                           /\ UNCHANGED returned
                 ELSE /\ calls' = WithTop(calls, [f EXCEPT !.pc = "loop"])
                      /\ UNCHANGED returned
  /\ UNCHANGED <<walkVars, lineVars, runVars, running, prefix_stack, entries_created,
                 built, sizeVars>>

\* One turn of the loop: prefix.push(is_last) in the tree format, and the
\* call for the child.
StreamDescend ==
  /\ running \in {"stream_plain", "stream_tree"}
  /\ calls # <<>>
  /\ Last(calls).pc = "loop"
  /\ Last(calls).i < Len(Last(calls).children)
  /\ Len(calls) < MaxCalls
  /\ LET f == Last(calls)
         is_last == f.i = Len(f.children) - 1
     IN  /\ calls' = Call(WithTop(calls, [f EXCEPT !.i = @ + 1]),
                          Frame(f.children[f.i + 1], f.depth + 1, <<>>))
         /\ prefix_stack' = IF running = "stream_tree" THEN Append(prefix_stack, is_last)
                            ELSE prefix_stack
  /\ UNCHANGED <<walkVars, lineVars, runVars, running, returned, stdout, counts,
                 entries_created, built, sizeVars>>

\* The loop is over and the call returns Ok(()): the caller, if there is one,
\* goes on with prefix.pop() in the tree format; else stream flushes the sink,
\* prints the summary in the tree format, and returns Ok(()).
StreamReturn ==
  /\ running \in {"stream_plain", "stream_tree"}
  /\ calls # <<>>
  /\ Last(calls).pc = "loop"
  /\ Last(calls).i = Len(Last(calls).children)
  /\ calls' = Popped(calls)
  /\ IF Len(calls) > 1
     THEN /\ prefix_stack' = IF running = "stream_tree" THEN pop(prefix_stack)
                             ELSE prefix_stack
          /\ UNCHANGED returned
     ELSE /\ returned' = "ok"
          /\ UNCHANGED prefix_stack
  /\ UNCHANGED <<walkVars, lineVars, runVars, running, stdout, counts, entries_created,
                 built, sizeVars>>

\* Walker::walk_standard up to the call of process_directory_children: the
\* root entry is created; a root that is no directory is returned or not at
\* once.
WalkStart ==
  /\ running = "none"
  /\ walker # <<>>
  /\ walker[1].mode \in {"Standard", "Full"}
  /\ result.op = "none"
  /\ running' = "walk_standard"
  /\ LET w == walker[1]
         root_entry == create_entry(w, w.root, 0)
     IN  IF ~MetadataOk(w.root)
         THEN returned' = "err" /\ UNCHANGED <<calls, entries_created, built>>
         ELSE /\ entries_created' = <<w.root>>
              /\ IF root_entry.is_dir
                 THEN /\ calls' = <<Frame(w.root, 0, root_entry)>>
                      /\ UNCHANGED <<returned, built>>
                 ELSE /\ built' = RootIfIncluded(w, Ok(root_entry)).val
                      /\ returned' = "ok"
                      /\ UNCHANGED calls
  /\ UNCHANGED <<walkVars, lineVars, runVars, prefix_stack, stdout, counts, sizeVars>>

\* The body of process_directory_children up to its loop: the depth check
\* and read_directory(..)?; an error returns from every call.
ListChildren ==
  /\ running = "walk_standard"
  /\ calls # <<>>
  /\ Last(calls).pc = "enter"
  /\ LET w == walker[1]
         f == Last(calls)
         children_paths == read_directory(w, f.path, f.depth + 1)
     IN  IF \E max_depth \in opts.max_depth : f.depth >= max_depth
         THEN calls' = WithTop(calls, [f EXCEPT !.pc = "loop"]) /\ UNCHANGED returned
         ELSE IF ~children_paths.ok
         THEN calls' = <<>> /\ returned' = "err"
         ELSE /\ calls' = WithTop(calls, [f EXCEPT !.pc = "loop",
                                                   !.children = children_paths.val])
              /\ UNCHANGED returned
  /\ UNCHANGED <<walkVars, lineVars, runVars, running, prefix_stack, stdout, counts,
                 entries_created, built, sizeVars>>

\* One turn of the loop: process_entry on the next path; a directory entry
\* is the subject of a call, any other entry is pushed to parent.children.
ProcessChild ==
  /\ running = "walk_standard"
  /\ calls # <<>>
  /\ Last(calls).pc = "loop"
  /\ Last(calls).i < Len(Last(calls).children)
  /\ Len(calls) < MaxCalls
  /\ LET w == walker[1]
         f == Last(calls)
         child_path == f.children[f.i + 1]
         r == process_entry(w, child_path, f.depth + 1)
         child_entry == CHOOSE e \in r.val : TRUE
         next == [f EXCEPT !.i = @ + 1]
     IN  IF ~r.ok
         THEN IF ~opts.gitignore
              THEN calls' = <<>> /\ returned' = "err" /\ UNCHANGED entries_created
              ELSE calls' = WithTop(calls, next) /\ UNCHANGED <<returned, entries_created>>
         ELSE IF r.val = None
         THEN calls' = WithTop(calls, next) /\ UNCHANGED <<returned, entries_created>>
         ELSE /\ entries_created' = Append(entries_created, child_path)
              /\ UNCHANGED returned
              /\ IF child_entry.is_dir
                 THEN calls' = Call(WithTop(calls, next),
                                    Frame(child_path, f.depth + 1, child_entry))
                 ELSE calls' = WithTop(calls, [next EXCEPT !.entry.children =
                                                             Append(@, child_entry)])
  /\ UNCHANGED <<walkVars, lineVars, runVars, running, prefix_stack, stdout, counts,
                 built, sizeVars>>

\* The loop is over and process_directory_children returns Ok(()): the caller
\* pushes the child to parent.children, or walk_standard returns the root if
\* it passes the filters or has children.
ChildrenDone ==
  /\ running = "walk_standard"
  /\ calls # <<>>
  /\ Last(calls).pc = "loop"
  /\ Last(calls).i = Len(Last(calls).children)
  /\ LET f == Last(calls)
         parent == calls[Len(calls) - 1]
     IN  IF Len(calls) > 1
         THEN /\ calls' = WithTop(Popped(calls),
                                  [parent EXCEPT !.entry.children = Append(@, f.entry)])
              /\ UNCHANGED <<returned, built>>
         ELSE /\ calls' = <<>>
              /\ built' = RootIfIncluded(walker[1], Ok(f.entry)).val
              /\ returned' = "ok"
  /\ UNCHANGED <<walkVars, lineVars, runVars, running, prefix_stack, stdout, counts,
                 entries_created, sizeVars>>

\* The paths of the directory entries of a tree, in the order in which
\* calculate_dir_sizes_recursive comes to them: an entry, then its children.
RECURSIVE DirPaths(_)
DirPaths(entries) ==
  IF entries = <<>> THEN <<>>
  ELSE (IF Head(entries).is_dir THEN <<Head(entries).path>> ELSE <<>>)
       \o DirPaths(Head(entries).children) \o DirPaths(Tail(entries))

\* calculate_dir_size_recursive: files.iter().sum() of one directory.
file_sum(path) ==
  LET entries == ReadDir(path)
      Sum[i \in 0..Len(entries)] ==
        IF i = 0 THEN 0
        ELSE Sum[i - 1] + (IF MetaIsDir(entries[i]) THEN 0 ELSE MetaLen(entries[i]))
  IN  Sum[Len(entries)]

\* calculate_dir_size_recursive: dirs of one directory.
sub_dirs(path) ==
  {ReadDir(path)[i] : i \in {j \in 1..Len(ReadDir(path)) : MetaIsDir(ReadDir(path)[j])}}

\* A counter that keeps the last value stored into it.
store(counter, val) == val

\* AtomicU64::fetch_add: the counter after the addition, one indivisible step.
fetch_add(counter, val) == counter + val

\* The top-level entries that can go on: with thread_count > 1 every one of
\* par_iter_mut() that has work left, else the first such of the loop.
Turn ==
  LET left == {i \in DOMAIN todo : todo[i] # <<>>}
  IN  IF walker[1].thread_count > 1 THEN left
      ELSE {i \in left : \A j \in left : i <= j}

\* walk_full after walk_standard returned Ok: calculate_dir_sizes(&mut entries)
\* when dir_sizes is set.
SizeStart ==
  /\ running = "walk_standard"
  /\ returned = "ok"
  /\ walker[1].mode = "Full"
  /\ walker[1].dir_sizes
  /\ sizing = "none"
  /\ sizing' = "running"
  /\ todo' = [i \in 1..Len(built) |-> DirPaths(<<built[i]>>)]
  /\ pending' = [i \in 1..Len(built) |-> {}]
  /\ total' = [i \in 1..Len(built) |-> None]
  /\ size_fields' = <<>>
  /\ worked' = <<>>
  /\ UNCHANGED <<walkVars, lineVars, runVars, stepVars>>

\* calculate_dir_size(&entry.path) is called: a new counter at 0, and the
\* directory itself for the first call of calculate_dir_size_recursive.
SizeBegin ==
  /\ sizing = "running"
  /\ \E i \in Turn :
       /\ total[i] = None
       /\ total' = [total EXCEPT ![i] = Some(0)]
       /\ pending' = [pending EXCEPT ![i] = {Head(todo[i])}]
  /\ UNCHANGED <<walkVars, lineVars, runVars, stepVars, sizing, todo, size_fields, worked>>

\* One call of calculate_dir_size_recursive, by whichever worker has it: the
\* directory is read, the sum of its files is added to the counter, and its
\* subdirectories are handed to the workers; an error fails the whole pass.
SizeWorker ==
  /\ sizing = "running"
  /\ \E i \in DOMAIN pending : \E dir \in pending[i] : \E size \in total[i] :
       IF ~ReadDirOk(dir) \/ \E j \in 1..Len(ReadDir(dir)) : ~MetadataOk(ReadDir(dir)[j])
       THEN /\ sizing' = "err"
            /\ UNCHANGED <<todo, pending, total, size_fields, worked>>
       ELSE /\ total' = [total EXCEPT ![i] = Some(fetch_add(size, file_sum(dir)))]
            /\ pending' = [pending EXCEPT ![i] = (@ \ {dir}) \cup sub_dirs(dir)]
            /\ worked' = Append(worked, dir)
            /\ UNCHANGED <<sizing, todo, size_fields>>
  /\ UNCHANGED <<walkVars, lineVars, runVars, stepVars>>

\* Every worker of the entry's calculate_dir_size is done: entry.size =
\* size.load(), and the loop goes on to the next directory entry.
SizeAssign ==
  /\ sizing = "running"
  /\ \E i \in Turn : \E size \in total[i] :
       /\ pending[i] = {}
       /\ size_fields' = Append(size_fields,
                                [path |-> Head(todo[i]), size |-> size, worker |-> i])
       /\ todo' = [todo EXCEPT ![i] = Tail(@)]
       /\ total' = [total EXCEPT ![i] = None]
  /\ UNCHANGED <<walkVars, lineVars, runVars, stepVars, sizing, pending, worked>>

\* calculate_dir_sizes returns Ok(()): no entry is left.
SizeDone ==
  /\ sizing = "running"
  /\ Turn = {}
  /\ sizing' = "ok"
  /\ UNCHANGED <<walkVars, lineVars, runVars, stepVars, todo, pending, total, size_fields,
                 worked>>

\* Trees with a link to the root inside the root, with links to a directory
\* they lie in two levels down, with both, with a link to a directory next to
\* it, with none, with a directory that cannot be listed, and with two
\* directories in the root.
StepTrees ==
  {SampleTree,
   [SampleTree EXCEPT ![3] = Symlink(FALSE, 1)],
   [SampleTree EXCEPT ![6] = Symlink(FALSE, 1)],
   [SampleTree EXCEPT ![6] = Symlink(FALSE, 2)],
   [SampleTree EXCEPT ![6] = Symlink(FALSE, 5)],
   [SampleTree EXCEPT ![3] = Symlink(FALSE, 1), ![6] = Symlink(FALSE, 2)],
   [SampleTree EXCEPT ![4] = Symlink(FALSE, 2)],
   [SampleTree EXCEPT ![5] = [Dir(FALSE, "lib") EXCEPT !.perm = "noread"]],
   [SampleTree EXCEPT ![3] = Dir(FALSE, "lib")]}

StepOptions == {DefaultOptions} \cup OneSetting(DefaultOptions)

InitStep ==
  /\ fs \in StepTrees
  /\ opts \in StepOptions
  /\ walker = <<>>
  /\ now = 2
  /\ result = NoResult
  /\ prev = NoResult
  /\ file = <<>>
  /\ max_size = 0
  /\ lines = <<>>
  /\ StepIdle
  /\ SizeIdle
  /\ args = DefaultArgs
  /\ config = DefaultConfig
  /\ ignore_loads = TRUE

NextStep ==
  \/ New
  \/ NewParallel
  \/ EnableLineCounting
  \/ EnableDirSizes
  \/ Walk
  \/ StreamStart
  \/ StreamVisit
  \/ StreamDescend
  \/ StreamReturn
  \/ WalkStart
  \/ ListChildren
  \/ ProcessChild
  \/ ChildrenDone
  \/ SizeStart
  \/ SizeBegin
  \/ SizeWorker
  \/ SizeAssign
  \/ SizeDone

\* A call stands at its first statement: StreamVisit or ListChildren is
\* enabled, whatever the listing gives.
ListingDue ==
  /\ running \in {"stream_plain", "stream_tree", "walk_standard"}
  /\ calls # <<>>
  /\ Last(calls).pc = "enter"

\* Every call that can go on does go on: the program is one thread that runs
\* its statements one after the other. For the two steps that list a
\* directory the weak fairness is written out, with ListingDue for their
\* enabling condition.
SpecStep ==
  /\ InitStep
  /\ [][NextStep]_vars
  /\ WF_vars(StreamDescend \/ StreamReturn \/ ProcessChild \/ ChildrenDone)
  /\ WF_vars(SizeStart \/ SizeBegin \/ SizeWorker \/ SizeAssign \/ SizeDone)
  /\ ([]<>(~ListingDue) \/ []<><<StreamVisit \/ ListChildren>>_vars)

----------------------------------------------------------------------------
(* Reading results *)

\* Every entry of a returned tree, the nested ones included.
RECURSIVE EntriesOf(_)
EntriesOf(entries) ==
  UNION {{entries[i]} \cup EntriesOf(entries[i].children) : i \in 1..Len(entries)}

Range(s) == {s[i] : i \in 1..Len(s)}

Walked == result.op = "walk"
Streamed == result.op \in {"stream_plain", "stream_tree"}

\* The entries of the last walk and the lines of the last stream.
OutEntries == EntriesOf(result.entries)
OutLines == Range(result.lines)

\* The paths the last operation put out.
OutPaths == {e.path : e \in OutEntries} \cup {l.path : l \in OutLines}

\* The options the last operation ran under.
MaxDepthSet == opts.max_depth # None
MaxDepth == CHOOSE d \in opts.max_depth : TRUE

\* The lines a stream wrote for the children of the directory printed as p.
IsChildPath(p, q) == Len(q) = Len(p) + 1 /\ SubSeq(q, 1, Len(p)) = p
ChildLines(p) == SelectSeq(result.lines, LAMBDA l : IsChildPath(p, l.path))

\* The path of node n on disk, from the root down the skeleton.
RECURSIVE DiskPath(_)
DiskPath(n) == IF n \in Root THEN <<n>> ELSE Append(DiskPath(Parent[n]), n)

Present == {n \in Nodes : fs[n].kind # "absent"}

----------------------------------------------------------------------------
(* C1: depth bound *)

\* C1: with max depth D, no entry a walk returns and no line a stream writes
\* has depth > D, and every directory entry at depth D has no children; for a
\* stream that is: no line is written for a path below a line of depth D.
C1_DepthBound ==
  MaxDepthSet =>
    /\ \A e \in OutEntries :
         /\ e.depth <= MaxDepth
         /\ (e.is_dir /\ e.depth = MaxDepth => e.children = <<>>)
    /\ \A l \in OutLines :
         /\ l.depth <= MaxDepth
         /\ (l.depth = MaxDepth => ChildLines(l.path) = <<>>)

\* A walk cut at depth 1 returns a directory that has a visible entry on disk.
C1_Witness ==
  /\ MaxDepthSet
  /\ MaxDepth = 1
  /\ fs[2].kind = "dir" /\ ~fs[2].dot /\ ~fs[5].dot
  /\ \E e \in OutEntries : e.path = <<1, 2>> /\ e.is_dir /\ e.depth = 1 /\ e.children = <<>>

----------------------------------------------------------------------------
(* C2: hidden-file policy *)

\* With show-hidden set and no other filter, every object on disk within the
\* max depth is put out.
NoOtherFilter ==
  [opts EXCEPT !.show_hidden = FALSE, !.max_depth = None, !.sort_by = None,
               !.reverse_sort = FALSE] = DefaultOptions

WithinDepth(n) == MaxDepthSet => Len(DiskPath(n)) - 1 <= MaxDepth

ShowHiddenExcludesNone ==
  opts.show_hidden /\ NoOtherFilter /\ (Walked \/ Streamed) =>
    \A n \in Present : WithinDepth(n) => DiskPath(n) \in OutPaths

\* C2 as claimed: without show-hidden no path put out has a component whose
\* name starts with '.', in any strategy; with show-hidden nothing is excluded.
C2_Original ==
  /\ ~opts.show_hidden => \A p \in OutPaths : \A i \in 1..Len(p) : ~fs[p[i]].dot
  /\ ShowHiddenExcludesNone

\* C2, amended: without show-hidden no path put out has a component below the
\* root whose name starts with '.' (no hidden entry below the root, and
\* nothing beneath a hidden directory below the root); with show-hidden
\* nothing is excluded.
C2_HiddenBelowRoot ==
  /\ ~opts.show_hidden => \A p \in OutPaths : \A i \in 2..Len(p) : ~fs[p[i]].dot
  /\ ShowHiddenExcludesNone

\* A run without show-hidden that put out the root and its visible directory
\* but neither the hidden file beside it nor the hidden file inside it.
C2_Witness ==
  /\ ~opts.show_hidden
  /\ (Walked \/ Streamed)
  /\ fs[3].kind = "file" /\ fs[3].dot
  /\ fs[6].kind = "file" /\ fs[6].dot
  /\ <<1, 2>> \in OutPaths
  /\ <<1, 2, 5>> \in OutPaths
  /\ <<1, 3>> \notin OutPaths
  /\ <<1, 2, 5, 6>> \notin OutPaths

----------------------------------------------------------------------------
(* C3: per-level caps *)

NonDirCount(seq) == Cardinality({i \in 1..Len(seq) : ~seq[i].is_dir})

\* C3: with max-files = N and max-dirs unset, every directory of a walk's
\* tree has at most N children with is_dir = false, and a stream writes at
\* most N lines of non-directories for the children of any one directory.
C3_FileCap ==
  opts.max_files # None /\ opts.max_dirs = None =>
    LET N == CHOOSE c \in opts.max_files : TRUE
    IN  /\ \A e \in OutEntries : NonDirCount(e.children) <= N
        /\ \A l \in OutLines : NonDirCount(ChildLines(l.path)) <= N

----------------------------------------------------------------------------
(* C4: size aggregation *)

RECURSIVE Ancestors(_)
Ancestors(n) == IF n \in Root THEN {} ELSE {Parent[n]} \cup Ancestors(Parent[n])

RECURSIVE SumSizes(_)
SumSizes(S) ==
  IF S = {} THEN 0
  ELSE LET n == CHOOSE x \in S : TRUE IN fs[n].size + SumSizes(S \ {n})

\* The sizes of everything on disk beneath directory d that is no directory.
SizeBeneath(d) ==
  SumSizes({n \in Present : fs[n].kind # "dir" /\ d \in Ancestors(n)})

\* C4: after a walk with directory sizes enabled, the size of every directory
\* entry is the sum of the sizes of all files on disk transitively beneath it
\* (0 when there is none).
C4_DirSizes ==
  Walked /\ result.cfg[1].dir_sizes =>
    \A e \in OutEntries : e.is_dir => e.size = SizeBeneath(Last(e.path))

\* The root's size takes in a file two directories down, and an empty
\* directory has size 0.
C4_Witness ==
  /\ Walked /\ result.cfg[1].dir_sizes
  /\ fs[5].kind = "dir" /\ fs[6].kind = "file"
  /\ fs[4].kind = "dir"
  /\ \E e \in OutEntries : e.path = <<1>> /\ e.size >= fs[6].size + fs[3].size /\ e.size > 1000
  /\ \E e \in OutEntries : e.path = <<1, 4>> /\ e.is_dir /\ e.size = 0

----------------------------------------------------------------------------
(* C5: sort by size *)

\* The size fields of the entries of seq that are no directories, in order.
FileSizes(seq) ==
  LET files == SelectSeq(seq, LAMBDA e : ~e.is_dir)
  IN  [i \in 1..Len(files) |-> files[i].size]

LineSizes(seq) ==
  LET files == SelectSeq(seq, LAMBDA l : ~l.is_dir)
  IN  [i \in 1..Len(files) |-> MetaLen(files[i].path)]

Ordered(sizes, reverse) ==
  \A i \in 1..Len(sizes) - 1 :
    IF reverse THEN sizes[i] >= sizes[i + 1] ELSE sizes[i] <= sizes[i + 1]

\* C5: with sort key size, the file children of every directory are in
\* non-decreasing order of size, and in non-increasing order with reverse.
C5_SortBySize ==
  opts.sort_by = Some("Size") =>
    /\ \A e \in OutEntries : Ordered(FileSizes(e.children), opts.reverse_sort)
    /\ \A l \in OutLines : Ordered(LineSizes(ChildLines(l.path)), opts.reverse_sort)

\* A reversed sort that put the root's files of sizes 1, 1000, 10 (in the
\* order the filesystem enumerates them) out as 1000, 10, 1.
C5_Witness ==
  /\ Walked
  /\ opts.sort_by = Some("Size") /\ opts.reverse_sort
  /\ fs[2].kind = "file" /\ fs[3].kind = "file" /\ fs[4].kind = "file"
  /\ fs[2].size = 1 /\ fs[3].size = 1000 /\ fs[4].size = 10
  /\ \E e \in OutEntries : e.path = <<1>> /\ FileSizes(e.children) = <<1000, 10, 1>>

----------------------------------------------------------------------------
(* C6: search filtering *)

\* The paths put out for objects that are no directories.
OutFilePaths ==
  {e.path : e \in {x \in OutEntries : ~x.is_dir}}
    \cup {l.path : l \in {x \in OutLines : ~x.is_dir}}

\* Every directory on the way from below the root down to path p passes the
\* filters, and so does p.
RECURSIVE PassesBelowRoot(_)
PassesBelowRoot(p) ==
  Len(p) > 1 =>
    /\ filter_should_include(opts, p)
    /\ PassesBelowRoot(SubSeq(p, 1, Len(p) - 1))

\* With a search pattern set, every directory below a root directory that
\* passes the other filters (and lies within the max depth, no cap on
\* directories being set) is put out, matching or not.
SearchKeepsDirectories ==
  (Walked \/ Streamed) /\ opts.max_dirs = None =>
    \A n \in Present \ Root :
      fs[n].kind = "dir" /\ WithinDepth(n) /\ PassesBelowRoot(DiskPath(n))
        => DiskPath(n) \in OutPaths

\* C6: with a search pattern set, the path of every file entry put out
\* matches the pattern (a file whose path does not match is absent), and no
\* directory is excluded by the pattern.
C6_Search ==
  opts.search # None =>
    /\ \A p \in OutFilePaths : IsMatch(p)
    /\ SearchKeepsDirectories

----------------------------------------------------------------------------
(* C7: Fast and Standard return the same paths *)

PathsOf(entries) == {e.path : e \in EntriesOf(entries)}

NoSortSearchSizeAge(o) ==
  /\ o.sort_by = None /\ o.search = None
  /\ o.min_size = None /\ o.max_size = None
  /\ o.newer_than = None /\ o.older_than = None

\* The options for which determine_mode selects the Fast strategy set no
\* sort key, search pattern, size bound or age bound (NoSortSearchSizeAge).
\* C7: the tree a walk built with the Fast strategy holds exactly the set of
\* paths that the Standard strategy builds for the same walker over the same
\* directory tree.
C7_FastEqualsStandard ==
  Walked /\ result.cfg[1].mode = "FastPath" =>
    /\ NoSortSearchSizeAge(opts)
    /\ PathsOf(result.entries) = PathsOf(walk_standard(result.cfg[1]).val)

----------------------------------------------------------------------------
(* C8: two walks of the same walker over the same tree *)

TwoWalks == prev.op = "walk" /\ result.op = "walk"

\* The verdict of the time filters on every object of the tree is the same at
\* the clock readings of the two walks.
SameAgeVerdicts ==
  \A n \in Present :
    time_filters(opts, fs[n].mtime, prev.at) = time_filters(opts, fs[n].mtime, result.at)

\* C8 as stated: two walks with the same options over the same unmodified
\* tree return identical results (entries, sizes, sibling order).
C8_Original == TwoWalks => result.entries = prev.entries

\* C8: two walks with the same options over the same unmodified tree return
\* identical results (entries, sizes, line counts, sibling order) in every
\* mode, with directory sizes enabled or not, provided no object's age crosses
\* a newer-than or older-than bound between the two walks; that is so
\* whenever no age bound is set.
C8_Idempotent == TwoWalks /\ SameAgeVerdicts => result.entries = prev.entries

\* Two walks at different times, an age bound set, return the same tree of a
\* root with at least two children.
C8_Witness ==
  /\ TwoWalks
  /\ prev.at < result.at
  /\ opts.newer_than # None \/ opts.older_than # None
  /\ SameAgeVerdicts
  /\ result.entries = prev.entries
  /\ result.entries # <<>>
  /\ Len(result.entries[1].children) >= 2

----------------------------------------------------------------------------
(* C9, C10: the line counter *)

Counted == lines # <<>>

\* The number of newline bytes in the whole file.
Newlines(f) == CountIn(f, {"nl"}, 0, FileLen(f))

\* The file is not empty and its last byte is no newline.
Unterminated(f) == f # <<>> /\ f[Len(f)].b # "nl"

\* The first 512 bytes of the file (all of a shorter file) hold a null byte.
NullInProbe(f) == CountIn(f, {"nul"}, 0, ProbeSize) > 0

\* C9: for a file that is not above the size ceiling and that the detector
\* takes for text, count_lines returns the number of newline bytes in the
\* file, plus 1 if the file is not empty and its last byte is no newline; an
\* empty file yields 0.
C9_LineCount ==
  Counted /\ FileLen(file) <= max_size /\ ~is_binary_file(file) =>
    /\ lines[1] = Newlines(file) + (IF Unterminated(file) THEN 1 ELSE 0)
    /\ file = <<>> => lines[1] = 0

\* A text file longer than one read buffer, two or more newline-terminated
\* lines followed by an unterminated one, has been counted.
C9_Witness ==
  /\ Counted
  /\ FileLen(file) <= max_size
  /\ FileLen(file) > ChunkSize
  /\ ~is_binary_file(file)
  /\ Newlines(file) >= 2
  /\ Unterminated(file)
  /\ lines[1] = Newlines(file) + 1

\* C10: count_lines returns 0 for every file whose first 512 bytes hold a
\* null byte, whatever its length and the number of its newlines, and for
\* every file larger than max_size.
C10_BinaryOrLarge ==
  Counted /\ (NullInProbe(file) \/ FileLen(file) > max_size) => lines[1] = 0

\* A file within the size ceiling, longer than the 512 bytes probed, with a
\* null byte among them, every other byte text and newlines among them, has
\* been counted as 0.
C10_Witness ==
  /\ Counted
  /\ FileLen(file) <= max_size
  /\ FileLen(file) > ProbeSize
  /\ NullInProbe(file)
  /\ Newlines(file) > 0
  /\ ~is_binary_file_ratio_only(file)
  /\ lines[1] = 0

----------------------------------------------------------------------------
(* C11: mode selection *)

Constructed == walker # <<>>
Mode == walker[1].mode

\* The settings that ask for the Full mode, ignore rules left aside.
FullSetting(o) ==
  \/ o.search # None
  \/ o.min_size # None \/ o.max_size # None
  \/ o.newer_than # None \/ o.older_than # None

\* The settings that ask for the Standard mode.
StandardSetting(o) ==
  \/ o.include # None \/ o.exclude # None
  \/ o.only_dirs \/ o.only_files
  \/ o.sort_by # None
  \/ o.max_dirs # None \/ o.max_files # None

\* The mode is Full iff full holds, else Standard iff a Standard setting is
\* set, else Fast.
ModeIs(full) ==
  /\ Mode = "Full" <=> full
  /\ Mode = "Standard" <=> ~full /\ StandardSetting(opts)
  /\ Mode = "FastPath" <=> ~full /\ ~StandardSetting(opts)

\* The hidden-file policy and the max depth do not change the mode.
HiddenAndDepthKeepMode ==
  \A h \in BOOLEAN : \A d \in {None, Some(0), Some(1)} :
    WalkerNew([opts EXCEPT !.show_hidden = h, !.max_depth = d], 1).mode = Mode

\* C11 as stated: the mode chosen at construction is Full iff a search
\* pattern, a size bound or an age bound is set or ignore rules are requested,
\* else Standard iff an include or exclude pattern, dirs-only, files-only, a
\* sort key, max-dirs or max-files is set, else Fast; the hidden-file policy
\* and the max depth never change it.
C11_Original ==
  Constructed =>
    /\ ModeIs(FullSetting(opts) \/ opts.gitignore)
    /\ HiddenAndDepthKeepMode

\* C11: the mode chosen at construction is Full iff a search pattern, a size
\* bound or an age bound is set, or ignore rules are requested and the matcher
\* of the root's ignore file was built; else Standard iff an include or
\* exclude pattern, dirs-only, files-only, a sort key, max-dirs or max-files
\* is set; else Fast.  The hidden-file policy and the max depth never change
\* the mode.
C11_ModeSelection ==
  Constructed =>
    /\ ModeIs(FullSetting(opts) \/ (opts.gitignore /\ ignore_loads))
    /\ HiddenAndDepthKeepMode

\* A walker built with ignore rules requested whose matcher could not be
\* built, with max-files and show-hidden set: its mode is Standard.
C11_Witness ==
  /\ Constructed
  /\ opts.gitignore /\ ~ignore_loads
  /\ opts.max_files # None /\ opts.show_hidden /\ opts.max_depth # None
  /\ ~FullSetting(opts)
  /\ Mode = "Standard"

\* ---------------------------------------------------------------------------
\* C12
\* ---------------------------------------------------------------------------
Rank(mode) == CASE mode = "FastPath" -> 0 [] mode = "Standard" -> 1 [] mode = "Full" -> 2

\* One call on a constructed walker, seen from the fields it leaves behind.
EscalationStep ==
  LET w == walker[1]
      v == walker'[1]
  IN  /\ Rank(v.mode) >= Rank(w.mode)
      /\ v.show_lines /\ ~w.show_lines /\ v.dir_sizes = w.dir_sizes
           => v.mode = IF w.mode = "FastPath" THEN "Standard" ELSE w.mode
      /\ v.show_lines => Rank(v.mode) >= 1
      /\ v.dir_sizes => v.mode = "Full"
      /\ v.show_lines = w.show_lines /\ v.dir_sizes = w.dir_sizes => v.mode = w.mode
      /\ w.show_lines => v.show_lines
      /\ w.dir_sizes => v.dir_sizes

\* C12: over any sequence of enable_line_counting, enable_dir_sizes and
\* set_max_file_size calls after construction the mode never moves down in
\* the order FastPath < Standard < Full; the call that turns line counting on
\* makes FastPath Standard and leaves Standard and Full alone, so the mode is
\* at least Standard from then on; once directory sizes are on the mode is
\* Full and stays Full; a call that turns on neither leaves the mode alone.
C12_Monotonic == [][Constructed /\ walker' # <<>> => EscalationStep]_vars

\* A walker constructed in FastPath that has gone through all three calls:
\* line counting and directory sizes on, another size limit, mode Full.
C12_Witness ==
  /\ Constructed
  /\ determine_mode(walker[1].filter_opts, walker[1].gitignore) = "FastPath"
  /\ walker[1].show_lines
  /\ walker[1].dir_sizes
  /\ walker[1].max_file_size # DefaultMaxFileSize
  /\ Mode = "Full"

\* ---------------------------------------------------------------------------
\* C13
\* ---------------------------------------------------------------------------
Ran == result.op = "run"

\* The options were built: no pattern, size or duration failed to parse.
OptionsBuilt == from_args_and_config(args, config).ok

\* A feature that needs the whole tree is requested: JSON or CSV output, the
\* size distribution, the total size, directory sizes (the three from the
\* arguments), or a sort key from the arguments or the configuration.
BufferingRequested ==
  \/ args.output \in {"Json", "Csv"}
  \/ args.dist # None
  \/ args.total_size
  \/ args.dir_sizes
  \/ args.sort # None
  \/ config.filters.sort_by # None

C14_IgnoreRules ==
  opts.gitignore /\ ignore_loads /\ (Walked \/ Streamed) =>
    \A p \in OutPaths : \A i \in 2..Len(p) : ~fs[p[i]].ign

\* A run under ignore rules on a tree where a file beside the root's
\* directories and a directory with contents are ignored: neither they nor
\* what is inside is put out, the rest is.
C14_Witness ==
  /\ opts.gitignore /\ ignore_loads
  /\ (Walked \/ Streamed)
  /\ fs[3].kind = "file" /\ fs[3].ign
  /\ fs[2].kind = "dir" /\ fs[2].ign
  /\ fs[5].kind = "dir" /\ ~fs[5].ign
  /\ fs[4].kind = "file" /\ ~fs[4].ign
  /\ <<1, 4>> \in OutPaths
  /\ <<1, 3>> \notin OutPaths
  /\ <<1, 2>> \notin OutPaths
  /\ <<1, 2, 5>> \notin OutPaths

\* ---------------------------------------------------------------------------
\* C15
\* ---------------------------------------------------------------------------
\* The entries and the lines put out for objects below the root.
BelowRootEntries == {e \in OutEntries : Len(e.path) >= 2}
BelowRootLines == {l \in OutLines : Len(l.path) >= 2}
BelowRootPaths == {p \in OutPaths : Len(p) >= 2}

\* C15: with dirs-only set every entry and every line below the root that a
\* walk or a stream puts out is a directory; with files-only set none of them
\* is a directory.
C15_TypeRestriction ==
  (Walked \/ Streamed) =>
    /\ opts.only_dirs =>
          /\ \A p \in BelowRootPaths : fs[Last(p)].kind = "dir"
          /\ \A e \in BelowRootEntries : e.is_dir
    /\ opts.only_files =>
          /\ \A p \in BelowRootPaths : fs[Last(p)].kind # "dir"
          /\ \A e \in BelowRootEntries : ~e.is_dir

\* A run with dirs-only that put out a directory and the directory inside it
\* and left out the file beside it, and a run with files-only that put out a
\* file and left out the directory beside it.
C15_Witness ==
  /\ (Walked \/ Streamed)
  /\ fs[2].kind = "dir" /\ fs[3].kind = "file" /\ fs[5].kind = "dir"
  /\ \/ /\ opts.only_dirs
        /\ <<1, 2, 5>> \in OutPaths
        /\ <<1, 3>> \notin OutPaths
     \/ /\ opts.only_files
        /\ <<1, 3>> \in OutPaths
        /\ <<1, 2>> \notin OutPaths

\* ---------------------------------------------------------------------------
\* C16
\* ---------------------------------------------------------------------------
StreamedOk == Streamed /\ result.ok

\* One line per entry: no path is written twice.
OneLinePerEntry == Cardinality({l.path : l \in OutLines}) = Len(result.lines)

DirLines == {l \in OutLines : fs[Last(l.path)].kind = "dir"}

\* The final counts are reported and count every line once, a directory in
\* the directory count and anything else in the file count.
CountsReported ==
  /\ result.summary
  /\ result.dir_count = Cardinality(DirLines)
  /\ result.file_count = Cardinality(OutLines \ DirLines)
  /\ result.dir_count + result.file_count = Len(result.lines)

\* C16 as claimed: a stream that completes, in tree format and in plain
\* format alike, writes one line per visited entry and then reports final
\* counts that add up to the number of lines.
C16_Original == StreamedOk => OneLinePerEntry /\ CountsReported

\* C16, amended: a stream that completes writes one line per visited entry;
\* in tree format it then reports the final counts, the directory count plus
\* the file count is the number of lines, and every line is counted once
\* (directories in the directory count, everything else in the file count);
\* in plain format it counts nothing and reports no counts.
C16_StreamContract ==
  StreamedOk =>
    /\ OneLinePerEntry
    /\ result.op = "stream_tree" => CountsReported
    /\ result.op = "stream_plain" =>
          ~result.summary /\ result.dir_count = 0 /\ result.file_count = 0

\* A tree stream over directories, files and a link that reported its counts.
C16_Witness ==
  /\ StreamedOk
  /\ result.op = "stream_tree"
  /\ result.summary
  /\ \E l \in OutLines : fs[Last(l.path)].kind = "symlink"
  /\ result.dir_count >= 2
  /\ result.file_count >= 2

\* ---------------------------------------------------------------------------
\* C17
\* ---------------------------------------------------------------------------
\* The walker of the last walk.
LastWalker == result.cfg[1]

DepthOf(n) == Len(DiskPath(n)) - 1

\* What read_directory returns for the directory at node n during the walk.
Listing(n) == read_directory(LastWalker, DiskPath(n), DepthOf(n) + 1)

\* The Standard/Full walk gets to node n: the root, or a path the listing of
\* its directory returned, that directory being one the walk descends into
\* and lists without error.
RECURSIVE Reached(_)
Reached(n) ==
  \/ n \in Root
  \/ /\ Reached(Parent[n])
     /\ fs[Parent[n]].kind = "dir"
     /\ BelowMaxDepth(LastWalker.filter_opts, DepthOf(Parent[n]))
     /\ Listing(Parent[n]).ok
     /\ DiskPath(n) \in Range(Listing(Parent[n]).val)

\* The walk lists the directory at node n and the listing fails.
ListingFails(n) ==
  /\ Reached(n)
  /\ fs[n].kind = "dir"
  /\ BelowMaxDepth(LastWalker.filter_opts, DepthOf(n))
  /\ ~Listing(n).ok

StandardOrFull == Walked /\ LastWalker.mode \in {"Standard", "Full"}

\* The directory at node n is in the tree without children, and so are the
\* other paths the listing of its parent returned.
KeptWithoutChildren(n) ==
  /\ \E e \in OutEntries : e.path = DiskPath(n) /\ e.children = <<>>
  /\ n \notin Root => \A p \in Range(Listing(Parent[n]).val) : p \in OutPaths

\* C17: when listing a directory fails during a Standard or Full walk, the
\* walk returns the error if ignore rules are not requested; if they are, the
\* walk does not fail, the directory is kept with no children and its
\* siblings are still processed.
C17_ReadFailure ==
  StandardOrFull =>
    \A n \in Nodes :
      ListingFails(n) =>
        IF ~opts.gitignore THEN ~result.ok
        ELSE result.ok /\ KeptWithoutChildren(n)

\* The half of C17 the code keeps: without ignore rules the error is returned.
ReadFailureReturned ==
  StandardOrFull /\ ~opts.gitignore => \A n \in Nodes : ListingFails(n) => ~result.ok

\* What the code does under ignore rules: the error is returned all the same.
ReadFailureReturnedAlways ==
  StandardOrFull => \A n \in Nodes : ListingFails(n) => ~result.ok

\* ---------------------------------------------------------------------------
\* C18
\* ---------------------------------------------------------------------------
\* The readdir loop of the Fast walk passes the name of node n on to the
\* recursive call.
FastVisible(n) == fs[n].kind # "absent" /\ (LastWalker.filter_opts.show_hidden \/ ~fs[n].dot)

\* The Fast walk gets to node n and creates its entry.
RECURSIVE FastReached(_)
FastReached(n) ==
  \/ n \in Root
  \/ /\ FastReached(Parent[n])
     /\ fs[Parent[n]].kind = "dir"
     /\ fs[Parent[n]].perm = "ok"
     /\ BelowMaxDepth(LastWalker.filter_opts, DepthOf(Parent[n]))
     /\ FastVisible(n)

\* The Fast walk fails to read a child at the directory of node n: opendir
\* fails on it, or symlink_metadata fails on a name read from it.
FastFails(n) ==
  /\ FastReached(n)
  /\ fs[n].kind = "dir"
  /\ BelowMaxDepth(LastWalker.filter_opts, DepthOf(n))
  /\ \/ fs[n].perm = "noread"
     \/ fs[n].perm = "nosearch" /\ \E c \in Nodes : Parent[c] = n /\ FastVisible(c)

\* The walk fails to read a child at the directory of node n.
ChildFails(n) ==
  IF LastWalker.mode = "FastPath" THEN FastFails(n) ELSE ListingFails(n)

\* C18: in every buffered strategy (Fast, Standard, Full), ignore rules not
\* requested, a failure to read one child during the walk (its metadata
\* cannot be read, its directory cannot be opened or listed) makes the walk
\* return an error.
C18_ChildFailureFatal ==
  Walked /\ ~opts.gitignore => \A n \in Nodes : ChildFails(n) => ~result.ok

\* What the Fast walk does instead: it never returns an error below a root
\* whose metadata can be read, and leaves out what it could not read.
FastNeverFails ==
  Walked /\ LastWalker.mode = "FastPath" => result.ok

\* ---------------------------------------------------------------------------
\* C19
\* ---------------------------------------------------------------------------
\* The directories of the tree walk_full hands to calculate_dir_sizes.
SizedDirs ==
  IF walk_standard(LastWalker).ok
  THEN {e \in EntriesOf(walk_standard(LastWalker).val) : e.is_dir}
  ELSE {}

\* The Size Aggregator ran on a completed tree.
Aggregated == Walked /\ LastWalker.mode = "Full" /\ LastWalker.dir_sizes

\* C19: when computing the size of one directory subtree fails, every
\* directory of the tree whose own subtree is readable still gets its
\* aggregated size, with one thread and with several.
C19_PartialFailure ==
  Aggregated /\ (\E d \in SizedDirs : ~calculate_dir_size(d.path).ok) =>
    \A d \in SizedDirs :
      calculate_dir_size(d.path).ok =>
        \E e \in OutEntries :
          e.path = d.path /\ e.size = calculate_dir_size(d.path).val

\* What the code does: one size that cannot be computed fails the walk, with
\* one thread and with several.
SizeFailureFailsWalk ==
  Aggregated /\ (\E d \in SizedDirs : ~calculate_dir_size(d.path).ok) =>
    ~result.ok /\ result.entries = <<>>

\* ---------------------------------------------------------------------------
\* C20
\* ---------------------------------------------------------------------------
\* The entries beneath entry e in the tree that are no directories.
FileEntriesBeneath(e) == {c \in EntriesOf(e.children) : ~c.is_dir}

RECURSIVE SumEntrySizes(_)
SumEntrySizes(E) ==
  IF E = {} THEN 0
  ELSE LET c == CHOOSE x \in E : TRUE IN c.size + SumEntrySizes(E \ {c})

\* The sum of the size fields of the file entries beneath e in the tree.
TreeFileSum(e) == SumEntrySizes(FileEntriesBeneath(e))

\* What is on disk beneath the directory of e, is no directory, and has no
\* entry beneath e in the tree.
LeftOut(e) ==
  {n \in Present : /\ fs[n].kind # "dir"
                    /\ Last(e.path) \in Ancestors(n)
                    /\ \A c \in FileEntriesBeneath(e) : c.path # DiskPath(n)}

AggregatedOk == Walked /\ result.cfg[1].dir_sizes /\ result.ok

\* C20 as claimed: after the Size Aggregator has run, the size of every
\* directory node is the sum of the size fields of the file entries beneath
\* it in the tree, also when objects on disk are kept out of the tree.
C20_Original ==
  AggregatedOk => \A e \in OutEntries : e.is_dir => e.size = TreeFileSum(e)

\* C20, amended: the size of every directory node is the sum of the size
\* fields of the file entries beneath it in the tree plus the sizes of the
\* files on disk beneath it that were kept out of the tree; it is the tree's
\* sum exactly when nothing of a size was kept out.
C20_SizeCoversTree ==
  AggregatedOk =>
    \A e \in OutEntries :
      e.is_dir =>
        /\ e.size = TreeFileSum(e) + SumSizes(LeftOut(e))
        /\ e.size >= TreeFileSum(e)
        /\ e.size = TreeFileSum(e) <=> \A n \in LeftOut(e) : fs[n].size = 0

\* A tree that leaves a hidden file out while a file beside it is in: the
\* directory above them has the size of both.
C20_Witness ==
  /\ AggregatedOk
  /\ ~opts.show_hidden
  /\ fs[3].kind = "file" /\ fs[3].dot
  /\ fs[4].kind = "file"
  /\ \E e \in OutEntries :
        /\ e.path = <<1>>
        /\ 3 \in LeftOut(e)
        /\ \E c \in FileEntriesBeneath(e) : c.path = <<1, 4>>
        /\ e.size > TreeFileSum(e)

----------------------------------------------------------------------------
(* C21: sibling order *)

\* The paths of a sequence of entries or lines, in order.
PathSeq(seq) == [i \in 1..Len(seq) |-> seq[i].path]

\* The walker a stream runs on.
StreamWalkerOf == WalkerNew(opts, 1)

\* What the Directory Lister produces for the directory put out as x (an
\* entry or a line) under walker w.
Listed(w, x) == read_directory(w, x.path, x.depth + 1).val

\* Directories first, each group in the enumeration order of the filesystem.
DirsFirst(seq) ==
  \A i, j \in 1..Len(seq) :
    i < j => /\ ~(~seq[i].is_dir /\ seq[j].is_dir)
             /\ (seq[i].is_dir = seq[j].is_dir => Last(seq[i].path) < Last(seq[j].path))

\* C21: in every strategy the children of a directory are put out in exactly
\* the order read_directory produces for that directory; with no sort key
\* all directory children precede all file children, each group in the
\* enumeration order of the filesystem.
C21_SiblingOrder ==
  /\ Walked =>
       \A e \in OutEntries :
         /\ e.children # <<>> => PathSeq(e.children) = Listed(result.cfg[1], e)
         /\ opts.sort_by = None => DirsFirst(e.children)
  /\ Streamed /\ result.ok =>
       \A l \in OutLines :
         /\ ChildLines(l.path) # <<>> => PathSeq(ChildLines(l.path)) = Listed(StreamWalkerOf, l)
         /\ opts.sort_by = None => DirsFirst(ChildLines(l.path))

\* The same for the strategies that list a directory with read_directory:
\* Standard, Full and streaming.
SiblingOrderListed ==
  /\ Walked /\ result.cfg[1].mode # "FastPath" =>
       \A e \in OutEntries :
         /\ e.children # <<>> => PathSeq(e.children) = Listed(result.cfg[1], e)
         /\ opts.sort_by = None => DirsFirst(e.children)
  /\ Streamed /\ result.ok =>
       \A l \in OutLines :
         /\ ChildLines(l.path) # <<>> => PathSeq(ChildLines(l.path)) = Listed(StreamWalkerOf, l)
         /\ opts.sort_by = None => DirsFirst(ChildLines(l.path))

\* A Fast walk put a file of the root out before a directory of the root.
FastFileBeforeDir ==
  /\ Walked /\ result.cfg[1].mode = "FastPath"
  /\ \E e \in OutEntries :
       /\ e.path = <<1>>
       /\ \E i, j \in 1..Len(e.children) :
            i < j /\ ~e.children[i].is_dir /\ e.children[j].is_dir

----------------------------------------------------------------------------
(* C22: sort by size over files and directories together *)

\* The size fields the entries of seq carry, in order.
EntrySizes(seq) == [i \in 1..Len(seq) |-> seq[i].size]

\* What metadata.len() is for the entries of seq, in order.
MetadataLens(seq) == [i \in 1..Len(seq) |-> MetaLen(seq[i].path)]

\* C22: with sort key size the children of every directory of the tree a
\* walk returns, directories included, carry size fields in non-decreasing
\* order (non-increasing with reverse).
C22_SortBySizeMixed ==
  Walked /\ opts.sort_by = Some("Size") =>
    \A e \in OutEntries : Ordered(EntrySizes(e.children), opts.reverse_sort)

\* What the sort does order the children by: metadata.len() of each child,
\* the directories among them.
SortedByMetadataLen ==
  Walked /\ opts.sort_by = Some("Size") =>
    \A e \in OutEntries : Ordered(MetadataLens(e.children), opts.reverse_sort)

\* A walk sorted by size put a file of 1 byte before a directory, whose
\* entry carries size 0.
FileBeforeEmptySizedDir ==
  /\ Walked /\ opts.sort_by = Some("Size") /\ ~opts.reverse_sort
  /\ \E e \in OutEntries :
       \E i \in 1..Len(e.children) - 1 :
         /\ ~e.children[i].is_dir /\ e.children[i].size = 1
         /\ e.children[i + 1].is_dir /\ e.children[i + 1].size = 0

----------------------------------------------------------------------------
(* C23: sort by line count *)

\* The line_count fields the entries of seq carry, in order.
LineCounts(seq) == [i \in 1..Len(seq) |-> seq[i].line_count]

\* The walker of the last walk counted lines.
LinesCounted == Walked /\ result.cfg[1].show_lines

\* C23: with sort key lines and line counting enabled, the children of every
\* directory are ordered by non-decreasing line_count as the emitted entries
\* carry it (non-increasing with reverse).
C23_SortByLines ==
  LinesCounted /\ opts.sort_by = Some("Lines") =>
    \A e \in OutEntries : Ordered(LineCounts(e.children), opts.reverse_sort)

\* What the sort by lines does: every temporary record has line_count 0, the
\* stable sort moves nothing, and the children stay directories first, each
\* group in enumeration order, reversed or not.
SortByLinesMovesNothing ==
  Walked /\ opts.sort_by = Some("Lines") =>
    \A e \in OutEntries : DirsFirst(e.children)

\* A walk sorted by lines that left a file of 1 line before a file of 0 lines.
MoreLinesFirst ==
  /\ LinesCounted /\ opts.sort_by = Some("Lines") /\ ~opts.reverse_sort
  /\ \E e \in OutEntries :
       \E i \in 1..Len(e.children) - 1 :
         /\ ~e.children[i].is_dir /\ e.children[i].line_count = 1
         /\ ~e.children[i + 1].is_dir /\ e.children[i + 1].line_count = 0

----------------------------------------------------------------------------
(* C24: streaming against the buffered Standard walk *)

\* The paths of a tree of entries in pre-order.
RECURSIVE PreOrder(_)
PreOrder(entries) ==
  IF entries = <<>> THEN <<>>
  ELSE <<Head(entries).path>> \o PreOrder(Head(entries).children) \o PreOrder(Tail(entries))

\* The tree the buffered Standard walk builds for the options of the stream.
StandardTree == walk_standard(StreamWalkerOf).val

\* Streaming is chosen: run_tree streams only when no sort key is set.
StreamingChosen == Streamed /\ result.ok /\ opts.sort_by = None

\* The paths a stream descended into, and the directories of the buffered tree.
Descended == {l.path : l \in {x \in OutLines : ChildLines(x.path) # <<>>}}
BufferedDirs == {e.path : e \in {x \in EntriesOf(StandardTree) : x.is_dir}}

\* C24: the sequence of paths a stream writes equals the pre-order sequence
\* of paths of the tree the buffered Standard walk builds for the same
\* options, and the stream descends into entries the buffered walk holds as
\* directories only.
C24_StreamEqualsBuffered ==
  StreamingChosen =>
    /\ PathSeq(result.lines) = PreOrder(StandardTree)
    /\ Descended \subseteq BufferedDirs

\* A symbolic link to a directory is among the paths written.
LinkToDirWritten ==
  \E l \in OutLines : MetaIsSymlink(l.path) /\ PathIsDir(l.path)

\* The two agree when the root passes the filters and no symbolic link to a
\* directory is written.
StreamEqualsBufferedNoLinks ==
  StreamingChosen /\ should_include(StreamWalkerOf, <<1>>) /\ ~LinkToDirWritten =>
    /\ PathSeq(result.lines) = PreOrder(StandardTree)
    /\ Descended \subseteq BufferedDirs

\* A stream wrote what lies behind a symbolic link to a directory, which the
\* buffered walk holds as a leaf.
StreamFollowedLink ==
  /\ StreamingChosen
  /\ \E l \in OutLines :
       /\ MetaIsSymlink(l.path)
       /\ ChildLines(l.path) # <<>>
       /\ \E e \in EntriesOf(StandardTree) : e.path = l.path /\ ~e.is_dir /\ e.children = <<>>

----------------------------------------------------------------------------
(* C28: what the size aggregation pass changes *)

\* A tree of entries with the size field of every directory entry set to 0,
\* the value create_entry gives it.
RECURSIVE DirSizesCleared(_)
DirSizesCleared(entries) ==
  [i \in 1..Len(entries) |->
     [entries[i] EXCEPT !.size = IF entries[i].is_dir THEN 0 ELSE @,
                        !.children = DirSizesCleared(@)]]

\* The last walk ran the size aggregation pass to its end.
SizesAggregated == Walked /\ result.ok /\ result.cfg[1].dir_sizes

\* C28: the size aggregation pass changes the size field of directory
\* entries only: but for those fields the tree walk_full returns is the tree
\* walk_standard built (same entries, same order, every other field and
\* every file's size unchanged).
C28_AggregatorFrame ==
  SizesAggregated =>
    DirSizesCleared(result.entries) = walk_standard(result.cfg[1]).val

\* The pass ran over a directory that holds a file and a directory with a
\* file inside, and gave both directories a size.
C28_Witness ==
  /\ SizesAggregated
  /\ \E e \in OutEntries :
       /\ e.path = <<1>> /\ e.size > 0
       /\ \E i, j \in 1..Len(e.children) :
            /\ e.children[i].is_dir /\ e.children[i].size > 0
            /\ e.children[i].children # <<>>
            /\ ~e.children[j].is_dir /\ e.children[j].size > 0

----------------------------------------------------------------------------
(* C29: the filter predicate is the conjunction of its checks *)

\* The checks, each on its own.
TypeCheck(o, p) == ~(o.only_dirs /\ ~MetaIsDir(p)) /\ ~(o.only_files /\ MetaIsDir(p))
HiddenCheck(o, p) == o.show_hidden \/ ~FileName(p).dot
SearchCheck(o, p) == MetaIsDir(p) \/ o.search = None \/ IsMatch(p)
IncludeCheck(o, p) == o.include = None \/ IsMatch(p)
ExcludeCheck(o, p) == o.exclude = None \/ ~IsMatch(p)
SizeCheck(o, p) ==
  \/ MetaIsDir(p)
  \/ /\ \A min \in o.min_size : MetaLen(p) >= min
     /\ \A max \in o.max_size : MetaLen(p) <= max
AgeCheck(o, p) ==
  LET mtime == Metadata(p).mtime
  IN  \/ mtime = NoMtime
      \/ mtime > now
      \/ /\ \A newer_than \in o.newer_than : now - mtime <= newer_than
         /\ \A older_than \in o.older_than : now - mtime >= older_than

AllChecksPass(o, p) ==
  /\ AgeCheck(o, p) /\ SizeCheck(o, p) /\ ExcludeCheck(o, p) /\ IncludeCheck(o, p)
  /\ SearchCheck(o, p) /\ HiddenCheck(o, p) /\ TypeCheck(o, p)

\* The object inside the root, and: nothing but the filters keeps it out of
\* the listing of the root.
Object == <<1, 2>>
NotCut ==
  /\ opts.max_depth # Some(0)
  /\ opts.max_dirs = None
  /\ opts.max_files = None

OperationDone == (Walked \/ Streamed) /\ result.ok

\* C29: should_include returns true exactly when every check passes on its
\* own, and an operation puts the object out exactly then.
C29_FilterConjunction ==
  /\ filter_should_include(opts, Object) = AllChecksPass(opts, Object)
  /\ OperationDone /\ NotCut => (Object \in OutPaths <=> AllChecksPass(opts, Object))

\* A file whose size equals the minimum was put out.
C29_Witness ==
  /\ OperationDone
  /\ opts.min_size = Some(10) /\ MetaIsFile(Object) /\ MetaLen(Object) = 10
  /\ Object \in OutPaths

\* An object without a modification time was put out under newer_than.
NoMtimeIncluded ==
  /\ OperationDone
  /\ opts.newer_than # None /\ Metadata(Object).mtime = NoMtime
  /\ Object \in OutPaths

\* An object was kept out by two checks at once.
TwoChecksFail ==
  /\ OperationDone /\ NotCut
  /\ ~SizeCheck(opts, Object) /\ ~AgeCheck(opts, Object)
  /\ Object \notin OutPaths

----------------------------------------------------------------------------
(* The operations followed call by call against the operations as a whole *)

StepStreaming == running \in {"stream_plain", "stream_tree"}

\* A stream followed call by call wrote, when it returned, the lines
\* stream_plain / stream_tree write, and returned Ok or Err as they do.
StreamStepsAgree ==
  StepStreaming /\ returned # "no" =>
    LET out == IF running = "stream_plain" THEN stream_plain(opts) ELSE stream_tree(opts)
    IN  /\ stdout = out.lines
        /\ (returned = "ok") = out.ok
        /\ counts.dir_count = out.dir_count /\ counts.file_count = out.file_count


\* A Standard walk followed call by call built, when it returned, the vector
\* walk_standard returns, and returned Ok or Err as it does.
WalkStepsAgree ==
  running = "walk_standard" /\ returned # "no" =>
    /\ (returned = "ok") = walk_standard(walker[1]).ok
    /\ returned = "ok" => built = walk_standard(walker[1]).val

----------------------------------------------------------------------------
(* C25: depth-first pre-order *)

\* p is q or a path above q; p is the directory q lies in.
IsPrefix(p, q) == Len(p) <= Len(q) /\ SubSeq(q, 1, Len(p)) = p

\* The paths of the lines written so far, in the order they were written.
WrittenPaths == PathSeq(stdout)

\* A sequence of paths in the order they were processed is in depth-first
\* pre-order: a path comes after the directory it lies in and never before
\* it, and what lies beneath a path follows it without anything else in
\* between.
InPreOrder(log) ==
  /\ \A j \in 1..Len(log) :
       Len(log[j]) > 1 => \E i \in 1..(j - 1) : IsChildPath(log[i], log[j])
  /\ \A i, j \in 1..Len(log) :
       i < j => ~(IsPrefix(log[j], log[i]))
  /\ \A i, j, k \in 1..Len(log) :
       i < j /\ j < k /\ IsPrefix(log[i], log[k]) => IsPrefix(log[i], log[j])

\* C25: at every moment of a Standard walk the entries created so far, and
\* at every moment of a stream the lines written so far, are in depth-first
\* pre-order: a directory comes before its children, all that lies beneath a
\* child before the child's next sibling, and no line after the line of
\* something beneath it.
C25_PreOrder ==
  /\ InPreOrder(entries_created)
  /\ InPreOrder(WrittenPaths)

\* A stream that has written a directory, what lies two levels beneath it,
\* and then the directory's next sibling; a walk that has created the same.
DeepThenSibling(log) ==
  \E i, j, k \in 1..Len(log) :
    /\ i < j /\ j < k
    /\ log[i] = <<1, 2>> /\ log[j] = <<1, 2, 5, 6>> /\ log[k] = <<1, 3>>

C25_Witness == StepStreaming /\ returned = "ok" /\ DeepThenSibling(WrittenPaths)

WalkDeepThenSibling ==
  running = "walk_standard" /\ returned = "ok" /\ DeepThenSibling(entries_created)

----------------------------------------------------------------------------
(* C26: the prefix stack of a tree-format stream *)

TreeStreaming == running = "stream_tree"

\* The children a call still holds to go through, and the paths all the
\* calls on the stack hold together.
Remaining(frame) == SubSeq(frame.children, frame.i + 1, Len(frame.children))

RECURSIVE HeldPaths(_)
HeldPaths(stack) ==
  IF stack = <<>> THEN 0 ELSE Len(Remaining(Last(stack))) + HeldPaths(Popped(stack))

\* The entries the directories on the way to the current call list together.
RECURSIVE WidthsAbove(_)
WidthsAbove(stack) ==
  IF stack = <<>> THEN 0
  ELSE Len(ReadDir(Last(stack).path)) + WidthsAbove(Popped(stack))

\* The prefix stack holds one flag for each call below the current one: d
\* flags when an entry at depth d is visited, every push taken back by a pop
\* when the child's call has returned, none left when the stream returns Ok.
PrefixFollowsCalls ==
  TreeStreaming =>
    /\ \A i \in 1..Len(stdout) : Len(stdout[i].prefix) = stdout[i].depth
    /\ calls # <<>> => /\ Len(prefix_stack) = Len(calls) - 1
                       /\ Len(prefix_stack) = Last(calls).depth
    /\ returned = "ok" => prefix_stack = <<>>

\* C26 as stated: the prefix stack follows the calls, and it is the only
\* traversal state retained: no call holds paths that are still to be gone
\* through.
C26_Original ==
  /\ PrefixFollowsCalls
  /\ TreeStreaming => HeldPaths(calls) = 0

\* C26: the prefix stack follows the calls; besides it every call on the
\* stack holds the children of its directory that are still to be gone
\* through, so what is retained is bounded by the entries of the directories
\* on the way to the current entry, not by the depth alone.
C26_PrefixStack ==
  /\ PrefixFollowsCalls
  /\ TreeStreaming => HeldPaths(calls) <= WidthsAbove(calls)

\* A tree stream that is three levels down, with three flags on the prefix
\* stack, while the call for the root still holds two children to go through.
C26_Witness ==
  /\ TreeStreaming /\ returned = "no"
  /\ Len(calls) = 4 /\ Len(prefix_stack) = 3
  /\ Len(Remaining(calls[1])) = 2

\* A tree stream failed and left flags on the prefix stack.
FailedWithFlags == TreeStreaming /\ returned = "err" /\ prefix_stack # <<>>

----------------------------------------------------------------------------
(* C30: termination *)

\* An operation has been started; it has returned, Ok or Err.
Started == running # "none" \/ result.op = "walk"
Returned ==
  \/ result.op = "walk"
  \/ returned = "err"
  \/ returned = "ok" /\ (running = "walk_standard" /\ walker[1].mode = "Full"
                          /\ walker[1].dir_sizes => sizing \in {"ok", "err"})

\* A call is held back by the bound on the stack and by nothing else.
HeldAtBound ==
  /\ calls # <<>>
  /\ Last(calls).pc = "loop"
  /\ Last(calls).i < Len(Last(calls).children)
  /\ Len(calls) >= MaxCalls

\* How often the lines written so far are lines of directory n, reached by
\* whatever path.
VisitsOf(n) ==
  Cardinality({i \in 1..Len(stdout) : PathIsDir(stdout[i].path)
                                        /\ Resolve(stdout[i].path) = n})

\* The paths to one directory with at most MaxSymlinks links in them: a path
\* is fixed by the links it goes through, each one of the nodes.
MaxVisits == Cardinality(Nodes) ^ (MaxSymlinks + 1)

\* C30: every walk and every stream that is started returns, on trees with
\* symbolic links to a directory they lie in too; the recursion never gets as
\* deep as MaxCalls, and no directory is written more often than there are
\* paths to it with at most MaxSymlinks links.
C30_Termination ==
  /\ [](~HeldAtBound)
  /\ [](\A n \in Nodes : VisitsOf(n) <= MaxVisits)
  /\ Started ~> Returned

\* A stream returned Ok on a tree with a link to the root inside the root: it
\* went through the link MaxSymlinks times and wrote the root MaxSymlinks + 1
\* times, the link after that as a leaf.
C30_Witness ==
  /\ StepStreaming /\ returned = "ok"
  /\ opts.max_depth = None
  /\ fs[3].kind = "symlink" /\ fs[3].target = 1
  /\ VisitsOf(1) = MaxSymlinks + 1
  /\ \E i \in 1..Len(stdout) :
       /\ LinkHops(stdout[i].path) = MaxSymlinks + 1
       /\ ChildLines(stdout[i].path) = <<>>

\* The buffered strategies write and create every directory once.
WalkVisitsOnce ==
  /\ \A i, j \in 1..Len(entries_created) :
       i # j => Last(entries_created[i]) # Last(entries_created[j])
  /\ Walked => \A e1, e2 \in OutEntries : e1.path # e2.path => Last(e1.path) # Last(e2.path)

----------------------------------------------------------------------------
(* The size pass, worker by worker *)

\* The sizes as one thread computes them, entry after entry.
SequentialSizes == calculate_dir_sizes([walker[1] EXCEPT !.thread_count = 1], built)

\* The size field of the entry at a path, in a tree.
SizeAt(entries, path) == (CHOOSE e \in EntriesOf(entries) : e.path = path).size

\* The paths whose size field has been written, in the order of the writes.
WrittenSizes == [k \in 1..Len(size_fields) |-> size_fields[k].path]

\* Every directory entry has its size written exactly once.
EachDirOnce ==
  /\ Len(size_fields) = Len(DirPaths(built))
  /\ {WrittenSizes[k] : k \in 1..Len(size_fields)}
       = {DirPaths(built)[k] : k \in 1..Len(DirPaths(built))}

\* C27: in every interleaving of the workers of the size pass, a size field
\* is written only by the worker of the top-level entry it lies under, the
\* pass fails exactly when the computation by one thread fails, and when it
\* returns every directory entry has the size that one thread computes.
C27_ParallelSizes ==
  /\ \A k \in 1..Len(size_fields) :
       IsPrefix(built[size_fields[k].worker].path, size_fields[k].path)
  /\ sizing = "err" => ~SequentialSizes.ok
  /\ sizing = "ok" =>
       /\ SequentialSizes.ok
       /\ EachDirOnce
       /\ \A k \in 1..Len(size_fields) :
            size_fields[k].size = SizeAt(SequentialSizes.val, size_fields[k].path)

\* A size pass with several threads returned; while the size of the root was
\* computed, two directories were with the workers at once, and the one
\* listed later was read between the other and its subdirectory.
C27_Witness ==
  /\ sizing = "ok"
  /\ walker[1].thread_count > 1
  /\ Len(size_fields) = 4
  /\ SubSeq(worked, 1, 4) = <<(<<1>>), (<<1, 2>>), (<<1, 3>>), (<<1, 2, 5>>)>>
  /\ size_fields[1].size = 1010

\* The size pass fails in a directory that the walk did not list.
SizePassFails == ~(sizing = "err" /\ returned = "ok")

============================================================================
